---- MODULE Spec2Model ----
(***************************************************************************)
(* SAMM aspect-model editor: the Turtle graph -> SAMMModel parser, the     *)
(* JSON Schema generator, the JSON instance generator and the Turtle       *)
(* writer (src/samm_editor).                                               *)
(*                                                                         *)
(* Representation.                                                         *)
(*  - A Python str is a sequence of chunks; the separators "#", "/" and    *)
(*    ":" that the code splits on are chunks of their own, so that         *)
(*    split/startswith are computed, not assumed.  "" is << >>.            *)
(*  - None is << >> and a present value v is << v >> (Optional[...]).      *)
(*  - An RDF literal is [dt, n, s]: datatype, numeric value (floats and    *)
(*    decimals in thousandths), lexical string.  Its Python value is       *)
(*    [t, n, s] with t the Python type.                                    *)
(*  - A dict is an insertion-ordered sequence of [k, v] entries.           *)
(*  - A JSON value is [j |-> tag, ...]; objects are dicts.                 *)
(*  - The RDF store is [vocab, bindings, order, node]: the version the     *)
(*    graph's SAMM terms are written in, the prefix bindings, the order in *)
(*    which the store enumerates subjects, and per subject the objects of  *)
(*    each predicate.                                                      *)
(* Inputs are graphs without preferredName/description/see triples and     *)
(* without reference cycles.                                               *)
(***************************************************************************)
EXTENDS Integers, Sequences, FiniteSets, TLC

VARIABLES graph, pc, model, schema, instance, written, model2, parser, graph2, depth

vars == <<graph, pc, model, schema, instance, written, model2, parser, graph2, depth>>

-----------------------------------------------------------------------------
(* Python values                                                           *)

None == << >>

Some(v) == << v >>

IsNone(o) == Len(o) = 0

Get(o) == o[1]

S(chunk) == << chunk >>

\* str.split(sep)[-1]: the chunks after the last occurrence of sep
RECURSIVE SplitLast(_, _)
SplitLast(str, sep) ==
    IF Len(str) = 0 THEN << >>
    ELSE IF str[Len(str)] = sep THEN << >>
    ELSE SplitLast(SubSeq(str, 1, Len(str) - 1), sep) \o << str[Len(str)] >>

\* sep in str
Contains(str, sep) == \E i \in 1..Len(str) : str[i] = sep

\* str.startswith(prefix)
StartsWith(str, prefix) ==
    /\ Len(prefix) <= Len(str)
    /\ SubSeq(str, 1, Len(prefix)) = prefix

PyBool(b) == [t |-> "bool", n |-> IF b THEN 1 ELSE 0, s |-> << >>]

PyInt(n) == [t |-> "int", n |-> n, s |-> << >>]

PyFloat(milli) == [t |-> "float", n |-> milli, s |-> << >>]

PyDecimal(milli) == [t |-> "Decimal", n |-> milli, s |-> << >>]

PyStr(s) == [t |-> "str", n |-> 0, s |-> s]

\* str(value)
StrOf(v) ==
    CASE v.t = "str" -> v.s
      [] v.t = "bool" -> IF v.n = 1 THEN S("True") ELSE S("False")
      [] v.t = "int" -> S(ToString(v.n))
      [] OTHER -> << ToString(v.n), "e-3" >>

\* bool(value) of a Python value
PyTruthy(v) == IF v.t = "str" THEN Len(v.s) > 0 ELSE v.n # 0

\* dict: d.get(k), k in d, d[k] = v
RECURSIVE DictFind(_, _)
DictFind(d, k) ==
    IF Len(d) = 0 THEN 0
    ELSE IF d[Len(d)].k = k THEN Len(d)
    ELSE DictFind(SubSeq(d, 1, Len(d) - 1), k)

DictHas(d, k) == DictFind(d, k) # 0

DictGet(d, k) == IF DictHas(d, k) THEN Some(d[DictFind(d, k)].v) ELSE None

DictPut(d, k, v) ==
    IF DictHas(d, k)
    THEN [d EXCEPT ![DictFind(d, k)] = [k |-> k, v |-> v]]
    ELSE Append(d, [k |-> k, v |-> v])

RECURSIVE DictUpdate(_, _)
DictUpdate(d, other) ==
    IF Len(other) = 0 THEN d
    ELSE DictUpdate(DictPut(d, other[1].k, other[1].v), Tail(other))

DictKeys(d) == [i \in 1..Len(d) |-> d[i].k]

-----------------------------------------------------------------------------
(* RDF literals (rdflib.Literal)                                           *)

LitBool(b) == [dt |-> "boolean", n |-> IF b THEN 1 ELSE 0,
               s |-> IF b THEN S("true") ELSE S("false")]

LitInt(n) == [dt |-> "integer", n |-> n, s |-> S(ToString(n))]

LitFloat(milli) == [dt |-> "float", n |-> milli, s |-> << ToString(milli), "e-3" >>]

LitDecimal(milli) == [dt |-> "decimal", n |-> milli, s |-> << ToString(milli), "e-3" >>]

LitStr(s) == [dt |-> "string", n |-> 0, s |-> s]

\* Literal.toPython(): the value of the literal in Python's value space
ToPython(lit) ==
    CASE lit.dt = "boolean" -> PyBool(lit.n = 1)
      [] lit.dt = "integer" -> PyInt(lit.n)
      [] lit.dt = "float" -> PyFloat(lit.n)
      [] lit.dt = "decimal" -> PyDecimal(lit.n)
      [] OTHER -> PyStr(lit.s)

\* `if literal:` -- Literal.__bool__ is bool(literal.value)
Truthy(lit) == PyTruthy(ToPython(lit))

\* `if x:` for the single-or-absent result of graph.value
Present(o) == ~IsNone(o) /\ Truthy(Get(o))

-----------------------------------------------------------------------------
(* The RDF store (rdflib.Graph) behind graph.subjects/objects/value/items  *)

MetaModelNS(ver) == << "urn:samm:org.eclipse.esmf.samm", ":meta-model:" >> \o ver \o << "#" >>

CharacteristicNS(ver) == << "urn:samm:org.eclipse.esmf.samm", ":characteristic:" >> \o ver \o << "#" >>

EntityNS(ver) == << "urn:samm:org.eclipse.esmf.samm", ":entity:" >> \o ver \o << "#" >>

UnitNS(ver) == << "urn:samm:org.eclipse.esmf.samm", ":unit:" >> \o ver \o << "#" >>

XSD(name) == << "http://www.w3.org/2001/XMLSchema", "#", name >>

BaselineVersion == S("2.2.0")

EmptyNode ==
    [types |-> << >>,
     properties |-> None, operations |-> None, events |-> None,
     input |-> None, output |-> None, parameters |-> None,
     extends |-> None, characteristic |-> None, property |-> None,
     exampleValue |-> None, optional |-> None, payloadName |-> None,
     notInPayload |-> None, dataType |-> None, unit |-> None,
     values |-> None, defaultValue |-> None, elementCharacteristic |-> None,
     left |-> None, right |-> None, deconstructionRule |-> None,
     elements |-> None]

EmptyGraph == [vocab |-> BaselineVersion, bindings |-> << >>, order |-> << >>,
               node |-> [s \in {} |-> EmptyNode]]

Type(voc, name) == [voc |-> voc, name |-> name]

\* graph.value(s, <term of version ver>): single-or-absent
Value(g, ver, s, pred) ==
    IF g.vocab = ver /\ s \in DOMAIN g.node THEN g.node[s][pred] ELSE None

\* graph.objects(s, RDF.type)
TypesOf(g, s) == IF s \in DOMAIN g.node THEN g.node[s].types ELSE << >>

\* (s, RDF.type, <term of version ver>) in graph
HasType(g, ver, s, type) ==
    /\ g.vocab = ver
    /\ \E i \in 1..Len(TypesOf(g, s)) : TypesOf(g, s)[i] = type

\* graph.subjects(RDF.type, <term of version ver>), in the store's order
Subjects(g, ver, type) == SelectSeq(g.order, LAMBDA s : HasType(g, ver, s, type))

\* graph.items(list)
Items(list) == IF IsNone(list) THEN << >> ELSE Get(list)

\* `if x:` for a URIRef or list node returned by graph.value
PresentRef(o) == ~IsNone(o) /\ Len(Get(o)) > 0

-----------------------------------------------------------------------------
(* model.py                                                                *)

EmptyModel ==
    [aspect |-> None, entities |-> << >>, characteristics |-> << >>,
     properties |-> << >>, operations |-> << >>, events |-> << >>,
     namespace |-> << >>, prefixes |-> << >>]

NewCharacteristic(urn, kind) ==
    [urn |-> urn, data_type |-> None, characteristic_type |-> kind,
     unit |-> None, values |-> << >>, default_value |-> None,
     element_characteristic |-> None, left |-> None, right |-> None,
     deconstruction_rule |-> None, elements |-> << >>]

NewProperty(urn) ==
    [urn |-> urn, characteristic |-> None, example_value |-> None,
     optional |-> FALSE, payload_name |-> None, not_in_payload |-> FALSE]

NewEntity(urn, is_abstract) ==
    [urn |-> urn, properties |-> << >>, extends |-> None,
     is_abstract |-> is_abstract]

NewOperation(urn) ==
    [urn |-> urn, input_properties |-> << >>, output_property |-> None]

NewEvent(urn) == [urn |-> urn, parameters |-> << >>]

NewAspect(urn) ==
    [urn |-> urn, properties |-> << >>, operations |-> << >>, events |-> << >>]

-----------------------------------------------------------------------------
(* parser.py: SAMMParser                                                   *)

\* the kinds _parse_characteristic recognises among a subject's RDF types
KnownKinds ==
    {"Measurement", "Quantifiable", "Enumeration", "State", "List", "Set",
     "SortedSet", "Collection", "TimeSeries", "Either", "StructuredValue",
     "SingleEntity", "Trait", "Code", "Duration", "Boolean", "Text",
     "MultiLanguageText", "Timestamp", "UnitReference"}

\* the first declared type, in the order the store yields them, that is a
\* known kind of the resolved characteristic namespace
RECURSIVE CharTypeStr(_, _, _)
CharTypeStr(g, ver, types) ==
    IF Len(types) = 0 THEN "Characteristic"
    ELSE IF g.vocab = ver /\ types[1].voc = "samm-c" /\ types[1].name \in KnownKinds
         THEN types[1].name
         ELSE CharTypeStr(g, ver, Tail(types))

\* a characteristic of the catalog namespace: no graph lookups
PredefinedCharacteristic(uri) ==
    LET local == SplitLast(uri, "#")
        kind == IF Len(local) = 0 THEN "" ELSE local[1]
        c == NewCharacteristic(uri, kind)
    IN  CASE kind = "Boolean" -> [c EXCEPT !.data_type = Some(XSD("boolean"))]
          [] kind = "Text" -> [c EXCEPT !.data_type = Some(XSD("string"))]
          [] kind = "Timestamp" -> [c EXCEPT !.data_type = Some(XSD("dateTime"))]
          [] OTHER -> c

\* the concatenation of a sequence of sequences
Concat(seqs) ==
    LET RECURSIVE cat(_)
        cat(ss) == IF Len(ss) = 0 THEN << >> ELSE ss[1] \o cat(Tail(ss))
    IN  cat(seqs)

LiteralsToPython(lits) == [i \in 1..Len(lits) |-> ToPython(lits[i])]

\* the scalar fields _parse_property reads from the Property's own triples
PropertyFields(g, ver, prop_uri, prop) ==
    LET example == Value(g, ver, prop_uri, "exampleValue")
        optional == Value(g, ver, prop_uri, "optional")
        payload_name == Value(g, ver, prop_uri, "payloadName")
        not_in_payload == Value(g, ver, prop_uri, "notInPayload")
    IN  [prop EXCEPT
            !.example_value = IF Present(example) THEN Some(ToPython(Get(example))) ELSE @,
            !.optional = IF Present(optional) THEN Truthy(Get(optional)) ELSE @,
            !.payload_name = IF Present(payload_name) THEN Some(Get(payload_name).s) ELSE @,
            !.not_in_payload = IF Present(not_in_payload) THEN Truthy(Get(not_in_payload)) ELSE @]

\* One assignment self.model.<reg>[k] = v.  A _parse_* method is modelled by
\* the object it returns (Parse*) and by the assignments to the registries
\* that it and its callees make, in order (*Assigns).
Assign(reg, k, v) == [reg |-> reg, k |-> k, v |-> v]

RECURSIVE ParseCharacteristic(_, _, _)
RECURSIVE ParseProperty(_, _, _)
RECURSIVE CharacteristicAssigns(_, _, _)
RECURSIVE PropertyAssigns(_, _, _)

\* _parse_characteristic: the Characteristic it returns
ParseCharacteristic(g, ver, char_uri) ==
    IF StartsWith(char_uri, CharacteristicNS(ver))
    THEN PredefinedCharacteristic(char_uri)
    ELSE
    LET data_type == Value(g, ver, char_uri, "dataType")
        unit == Value(g, ver, char_uri, "unit")
        values_list == Value(g, ver, char_uri, "values")
        default_value == Value(g, ver, char_uri, "defaultValue")
        element_char == Value(g, ver, char_uri, "elementCharacteristic")
        left == Value(g, ver, char_uri, "left")
        right == Value(g, ver, char_uri, "right")
        rule == Value(g, ver, char_uri, "deconstructionRule")
        elements_list == Value(g, ver, char_uri, "elements")
    IN  [NewCharacteristic(char_uri, CharTypeStr(g, ver, TypesOf(g, char_uri))) EXCEPT
            !.data_type = IF PresentRef(data_type) THEN data_type ELSE @,
            !.unit = IF PresentRef(unit) THEN unit ELSE @,
            !.values = IF ~IsNone(values_list)
                       THEN LiteralsToPython(Items(values_list)) ELSE @,
            !.default_value = IF Present(default_value)
                              THEN Some(ToPython(Get(default_value))) ELSE @,
            !.element_characteristic =
                IF PresentRef(element_char)
                THEN Some(ParseCharacteristic(g, ver, Get(element_char))) ELSE @,
            !.left = IF PresentRef(left)
                     THEN Some(ParseCharacteristic(g, ver, Get(left))) ELSE @,
            !.right = IF PresentRef(right)
                      THEN Some(ParseCharacteristic(g, ver, Get(right))) ELSE @,
            !.deconstruction_rule = IF Present(rule) THEN Some(Get(rule).s) ELSE @,
            !.elements = [i \in 1..Len(Items(elements_list)) |->
                            ParseProperty(g, ver, Items(elements_list)[i])]]

\* _parse_property: the Property it returns
ParseProperty(g, ver, prop_uri) ==
    LET char_uri == Value(g, ver, prop_uri, "characteristic")
    IN  PropertyFields(g, ver, prop_uri,
            [NewProperty(prop_uri) EXCEPT
                !.characteristic = IF PresentRef(char_uri)
                                   THEN Some(ParseCharacteristic(g, ver, Get(char_uri)))
                                   ELSE @])

\* _parse_characteristic: the registry assignments of the calls it makes
CharacteristicAssigns(g, ver, char_uri) ==
    IF StartsWith(char_uri, CharacteristicNS(ver)) THEN << >>
    ELSE
    LET element_char == Value(g, ver, char_uri, "elementCharacteristic")
        left == Value(g, ver, char_uri, "left")
        right == Value(g, ver, char_uri, "right")
        elements == Items(Value(g, ver, char_uri, "elements"))
    IN  (IF PresentRef(element_char)
         THEN CharacteristicAssigns(g, ver, Get(element_char)) ELSE << >>)
        \o (IF PresentRef(left) THEN CharacteristicAssigns(g, ver, Get(left)) ELSE << >>)
        \o (IF PresentRef(right) THEN CharacteristicAssigns(g, ver, Get(right)) ELSE << >>)
        \o Concat([i \in 1..Len(elements) |-> PropertyAssigns(g, ver, elements[i])])

\* _parse_property: the registry assignments it and its callees make
PropertyAssigns(g, ver, prop_uri) ==
    LET char_uri == Value(g, ver, prop_uri, "characteristic")
    IN  IF PresentRef(char_uri)
        THEN CharacteristicAssigns(g, ver, Get(char_uri))
             \o << Assign("characteristics", Get(char_uri),
                         ParseCharacteristic(g, ver, Get(char_uri))) >>
        ELSE << >>

\* the wrapper's overrides are not applied
IgnoreOverrides(g, ver, item, prop) == prop

\* the overrides a wrapper node of an ordered list applies to the Property
ApplyOverrides(g, ver, item, prop) ==
    LET payload_name == Value(g, ver, item, "payloadName")
        optional == Value(g, ver, item, "optional")
        not_in_payload == Value(g, ver, item, "notInPayload")
    IN  [prop EXCEPT
            !.payload_name = IF Present(payload_name) THEN Some(Get(payload_name).s) ELSE @,
            !.optional = IF Present(optional) THEN Truthy(Get(optional)) ELSE @,
            !.not_in_payload = IF Present(not_in_payload) THEN Truthy(Get(not_in_payload)) ELSE @]

\* one item of _parse_property_list: the Property appended, if any
ParseListItem(g, ver, item) ==
    LET prop_uri == Value(g, ver, item, "property")
    IN  IF HasType(g, ver, item, Type("samm", "Property"))
        THEN Some(ParseProperty(g, ver, item))
        ELSE IF PresentRef(prop_uri)
             THEN Some(ApplyOverrides(g, ver, item, ParseProperty(g, ver, Get(prop_uri))))
             ELSE None

\* the Property _parse_property is called on for a list item
ListItemUri(g, ver, item) ==
    IF HasType(g, ver, item, Type("samm", "Property")) THEN item
    ELSE Get(Value(g, ver, item, "property"))

\* _parse_property_list: the list it returns
ParsePropertyList(g, ver, items) ==
    Concat([i \in 1..Len(items) |-> ParseListItem(g, ver, items[i])])

\* _parse_property_list: the registry assignments
PropertyListAssigns(g, ver, items) ==
    Concat([i \in 1..Len(items) |->
              IF IsNone(ParseListItem(g, ver, items[i])) THEN << >>
              ELSE PropertyAssigns(g, ver, ListItemUri(g, ver, items[i]))
                   \o << Assign("properties", ListItemUri(g, ver, items[i]),
                               Get(ParseListItem(g, ver, items[i]))) >>])

\* _parse_operation
ParseOperation(g, ver, op_uri) ==
    LET input_list == Value(g, ver, op_uri, "input")
        output_uri == Value(g, ver, op_uri, "output")
    IN  [NewOperation(op_uri) EXCEPT
            !.input_properties = ParsePropertyList(g, ver, Items(input_list)),
            !.output_property = IF PresentRef(output_uri)
                                THEN Some(ParseProperty(g, ver, Get(output_uri)))
                                ELSE None]

OperationAssigns(g, ver, op_uri) ==
    LET output_uri == Value(g, ver, op_uri, "output")
    IN  PropertyListAssigns(g, ver, Items(Value(g, ver, op_uri, "input")))
        \o (IF PresentRef(output_uri) THEN PropertyAssigns(g, ver, Get(output_uri)) ELSE << >>)

\* _parse_event
ParseEvent(g, ver, event_uri) ==
    [NewEvent(event_uri) EXCEPT
        !.parameters = ParsePropertyList(g, ver, Items(Value(g, ver, event_uri, "parameters")))]

EventAssigns(g, ver, event_uri) ==
    PropertyListAssigns(g, ver, Items(Value(g, ver, event_uri, "parameters")))

\* _parse_aspect
ParseAspect(g, ver, aspect_uri) ==
    LET operations == Items(Value(g, ver, aspect_uri, "operations"))
        events == Items(Value(g, ver, aspect_uri, "events"))
    IN  [NewAspect(aspect_uri) EXCEPT
            !.properties = ParsePropertyList(g, ver, Items(Value(g, ver, aspect_uri, "properties"))),
            !.operations = [i \in 1..Len(operations) |-> ParseOperation(g, ver, operations[i])],
            !.events = [i \in 1..Len(events) |-> ParseEvent(g, ver, events[i])]]

AspectAssigns(g, ver, aspect_uri) ==
    LET operations == Items(Value(g, ver, aspect_uri, "operations"))
        events == Items(Value(g, ver, aspect_uri, "events"))
    IN  PropertyListAssigns(g, ver, Items(Value(g, ver, aspect_uri, "properties")))
        \o Concat([i \in 1..Len(operations) |->
                     OperationAssigns(g, ver, operations[i])
                     \o << Assign("operations", operations[i],
                                 ParseOperation(g, ver, operations[i])) >>])
        \o Concat([i \in 1..Len(events) |->
                     EventAssigns(g, ver, events[i])
                     \o << Assign("events", events[i], ParseEvent(g, ver, events[i])) >>])

\* _parse_entity
ParseEntity(g, ver, entity_uri, is_abstract) ==
    LET extends == Value(g, ver, entity_uri, "extends")
    IN  [NewEntity(entity_uri, is_abstract) EXCEPT
            !.properties = ParsePropertyList(g, ver, Items(Value(g, ver, entity_uri, "properties"))),
            !.extends = IF PresentRef(extends) THEN extends ELSE None]

EntityAssigns(g, ver, entity_uri) ==
    PropertyListAssigns(g, ver, Items(Value(g, ver, entity_uri, "properties")))

\* _find_all_characteristics: subjects typed with a characteristic class and
\* the objects of samm:characteristic on typed Properties (a set in the
\* code; enumerated here in the store's order)
FindAllCharacteristics(g, ver) ==
    LET typed == SelectSeq(g.order, LAMBDA s :
                    \/ HasType(g, ver, s, Type("samm", "Characteristic"))
                    \/ \E k \in KnownKinds : HasType(g, ver, s, Type("samm-c", k)))
        props == Subjects(g, ver, Type("samm", "Property"))
        withChar == SelectSeq(props, LAMBDA s :
                       PresentRef(Value(g, ver, s, "characteristic")))
        refd == [i \in 1..Len(withChar) |-> Get(Value(g, ver, withChar[i], "characteristic"))]
        isTyped(u) == \E i \in 1..Len(typed) : typed[i] = u
    IN  typed \o SelectSeq(refd, LAMBDA u : ~isTyped(u))

\* the model after the given assignments
RECURSIVE ApplyAssigns(_, _)
ApplyAssigns(m, writes) ==
    IF Len(writes) = 0 THEN m
    ELSE ApplyAssigns(
            IF writes[1].reg = "aspect"
            THEN [m EXCEPT !.aspect = Some(writes[1].v)]
            ELSE [m EXCEPT ![writes[1].reg] = DictPut(@, writes[1].k, writes[1].v)],
            Tail(writes))

\* the loop over the Aspect subjects left after its first round
ParseAspectsFirst(g, ver, uris) ==
    IF Len(uris) = 0 THEN << >>
    ELSE AspectAssigns(g, ver, uris[1])
         \o << Assign("aspect", uris[1], ParseAspect(g, ver, uris[1])) >>

\* the loops of _parse_model
ParseAspects(g, ver, uris) ==
    Concat([i \in 1..Len(uris) |->
              AspectAssigns(g, ver, uris[i])
              \o << Assign("aspect", uris[i], ParseAspect(g, ver, uris[i])) >>])

ParseEntities(g, ver, uris, is_abstract) ==
    Concat([i \in 1..Len(uris) |->
              EntityAssigns(g, ver, uris[i])
              \o << Assign("entities", uris[i], ParseEntity(g, ver, uris[i], is_abstract)) >>])

RECURSIVE ParseCharacteristics(_, _, _, _)
ParseCharacteristics(g, ver, m, uris) ==
    IF Len(uris) = 0 THEN m
    ELSE ParseCharacteristics(g, ver,
            IF DictHas(m.characteristics, uris[1]) THEN m
            ELSE ApplyAssigns(m, CharacteristicAssigns(g, ver, uris[1])
                                \o << Assign("characteristics", uris[1],
                                            ParseCharacteristic(g, ver, uris[1])) >>),
            Tail(uris))

RECURSIVE ParseStandaloneProperties(_, _, _, _)
ParseStandaloneProperties(g, ver, m, uris) ==
    IF Len(uris) = 0 THEN m
    ELSE ParseStandaloneProperties(g, ver,
            IF DictHas(m.properties, uris[1]) THEN m
            ELSE ApplyAssigns(m, PropertyAssigns(g, ver, uris[1])
                                \o << Assign("properties", uris[1],
                                            ParseProperty(g, ver, uris[1])) >>),
            Tail(uris))

\* _parse_model
ParseModel(g, ver, m) ==
    ParseStandaloneProperties(g, ver,
        ParseCharacteristics(g, ver,
            ApplyAssigns(m,
                ParseAspects(g, ver, Subjects(g, ver, Type("samm", "Aspect")))
                \o ParseEntities(g, ver, Subjects(g, ver, Type("samm", "Entity")), FALSE)
                \o ParseEntities(g, ver, Subjects(g, ver, Type("samm", "AbstractEntity")), TRUE)),
            FindAllCharacteristics(g, ver)),
        Subjects(g, ver, Type("samm", "Property")))

\* _parse_model, lines 97-101: the assignments of the loop over the
\* Characteristics, m being the model when the loop starts
RECURSIVE CharacteristicWrites(_, _, _, _)
CharacteristicWrites(g, ver, m, uris) ==
    IF Len(uris) = 0 THEN << >>
    ELSE IF DictHas(m.characteristics, uris[1])
    THEN CharacteristicWrites(g, ver, m, Tail(uris))
    ELSE (CharacteristicAssigns(g, ver, uris[1])
          \o << Assign("characteristics", uris[1], ParseCharacteristic(g, ver, uris[1])) >>)
         \o CharacteristicWrites(g, ver,
                ApplyAssigns(m, CharacteristicAssigns(g, ver, uris[1])
                                \o << Assign("characteristics", uris[1],
                                            ParseCharacteristic(g, ver, uris[1])) >>),
                Tail(uris))

\* _parse_model, lines 103-107: the assignments of the loop over the
\* standalone Properties
RECURSIVE StandaloneWrites(_, _, _, _)
StandaloneWrites(g, ver, m, uris) ==
    IF Len(uris) = 0 THEN << >>
    ELSE IF DictHas(m.properties, uris[1])
    THEN StandaloneWrites(g, ver, m, Tail(uris))
    ELSE (PropertyAssigns(g, ver, uris[1])
          \o << Assign("properties", uris[1], ParseProperty(g, ver, uris[1])) >>)
         \o StandaloneWrites(g, ver,
                ApplyAssigns(m, PropertyAssigns(g, ver, uris[1])
                                \o << Assign("properties", uris[1],
                                            ParseProperty(g, ver, uris[1])) >>),
                Tail(uris))

\* the assignments of the loops over Aspects and Entities
HolderWrites(g, ver) ==
    ParseAspects(g, ver, Subjects(g, ver, Type("samm", "Aspect")))
    \o ParseEntities(g, ver, Subjects(g, ver, Type("samm", "Entity")), FALSE)
    \o ParseEntities(g, ver, Subjects(g, ver, Type("samm", "AbstractEntity")), TRUE)

\* _parse_model: every assignment to a registry it makes, in order
ModelWrites(g, ver, m) ==
    HolderWrites(g, ver)
    \o CharacteristicWrites(g, ver, ApplyAssigns(m, HolderWrites(g, ver)),
                            FindAllCharacteristics(g, ver))
    \o StandaloneWrites(g, ver,
                        ParseCharacteristics(g, ver, ApplyAssigns(m, HolderWrites(g, ver)),
                                             FindAllCharacteristics(g, ver)),
                        Subjects(g, ver, Type("samm", "Property")))

\* _extract_namespaces
RECURSIVE ExtractNamespaces(_, _)
ExtractNamespaces(m, bindings) ==
    IF Len(bindings) = 0 THEN m
    ELSE LET b == bindings[1]
             m1 == [m EXCEPT !.prefixes = DictPut(@, b.prefix, b.ns),
                             !.namespace = IF b.prefix = << >> THEN b.ns ELSE @]
         IN  ExtractNamespaces(m1, Tail(bindings))

\* namespace_str.split(':meta-model:')[1].rstrip('#')
RECURSIVE RStrip(_, _)
RStrip(str, c) ==
    IF Len(str) > 0 /\ str[Len(str)] = c
    THEN RStrip(SubSeq(str, 1, Len(str) - 1), c)
    ELSE str

RECURSIVE SplitSecond(_, _, _)
SplitSecond(str, sep, seen) ==
    IF Len(str) = 0 THEN << >>
    ELSE IF str[1] = sep
         THEN (IF seen THEN << >> ELSE SplitSecond(Tail(str), sep, TRUE))
         ELSE (IF seen THEN << str[1] >> ELSE << >>) \o SplitSecond(Tail(str), sep, seen)

IsMetaModelNS(ns) ==
    \E i \in 1..(Len(ns) - 1) :
        ns[i] = "urn:samm:org.eclipse.esmf.samm" /\ ns[i + 1] = ":meta-model:"

\* the bindings are not looked at
DetectBaseline(bindings) == BaselineVersion

\* _detect_samm_version: the version of the first meta-model binding
RECURSIVE DetectSammVersion(_)
DetectSammVersion(bindings) ==
    IF Len(bindings) = 0 THEN BaselineVersion
    ELSE IF IsMetaModelNS(bindings[1].ns)
         THEN RStrip(SplitSecond(bindings[1].ns, ":meta-model:", FALSE), "#")
         ELSE DetectSammVersion(Tail(bindings))

\* parse_string on a fresh SAMMParser
ParseString(g) ==
    ParseModel(g, DetectSammVersion(g.bindings), ExtractNamespaces(EmptyModel, g.bindings))

\* The interpreter ends a call chain deeper than its recursion limit with
\* RecursionError.  The chains that can grow are those of _parse_property /
\* _parse_characteristic and of the generators' walk along `extends`; their
\* depth is counted up to one frame past the limit.
RecursionLimit == 6

MaxOf(numbers) == IF numbers = {} THEN 0 ELSE CHOOSE x \in numbers : \A y \in numbers : y <= x

\* the deepest nesting of _parse_characteristic and _parse_property frames
\* below a call of _parse_characteristic, of _parse_property
RECURSIVE CharacteristicDepth(_, _, _, _)
RECURSIVE PropertyDepth(_, _, _, _)
CharacteristicDepth(g, ver, char_uri, fuel) ==
    IF fuel = 0 THEN 0
    ELSE IF StartsWith(char_uri, CharacteristicNS(ver)) THEN 1
    ELSE
    LET nested == {r \in {Value(g, ver, char_uri, "elementCharacteristic"),
                          Value(g, ver, char_uri, "left"),
                          Value(g, ver, char_uri, "right")} : PresentRef(r)}
        elements == Items(Value(g, ver, char_uri, "elements"))
    IN  1 + MaxOf({CharacteristicDepth(g, ver, Get(r), fuel - 1) : r \in nested}
                  \cup {PropertyDepth(g, ver, elements[i], fuel - 1) :
                           i \in 1..Len(elements)})

PropertyDepth(g, ver, prop_uri, fuel) ==
    IF fuel = 0 THEN 0
    ELSE IF PresentRef(Value(g, ver, prop_uri, "characteristic"))
    THEN 1 + CharacteristicDepth(g, ver, Get(Value(g, ver, prop_uri, "characteristic")),
                                 fuel - 1)
    ELSE 1

\* the deepest nesting reached while _parse_model resolves the Properties
\* and Characteristics of the store
ParseDepth(g, ver) ==
    MaxOf({PropertyDepth(g, ver, Subjects(g, ver, Type("samm", "Property"))[i],
                         RecursionLimit + 1) :
              i \in 1..Len(Subjects(g, ver, Type("samm", "Property")))}
          \cup {CharacteristicDepth(g, ver, FindAllCharacteristics(g, ver)[i],
                                    RecursionLimit + 1) :
                   i \in 1..Len(FindAllCharacteristics(g, ver))})

\* SAMMParser(): the fields of a new parser object
NewParser ==
    [graph |-> EmptyGraph, model |-> EmptyModel,
     samm |-> None, samm_c |-> None, samm_e |-> None, unit |-> None]

\* self.graph.parse(data=turtle_content): the triples and bindings of the
\* text are added to the parser's store (the text is written in the
\* vocabulary of what the store holds and describes other subjects)
MergeGraphs(g, turtle) ==
    [vocab |-> turtle.vocab,
     bindings |-> g.bindings
                  \o SelectSeq(turtle.bindings, LAMBDA b :
                         \A i \in 1..Len(g.bindings) : g.bindings[i].prefix # b.prefix),
     order |-> g.order \o SelectSeq(turtle.order, LAMBDA x : x \notin DOMAIN g.node),
     node |-> [x \in DOMAIN g.node \cup DOMAIN turtle.node |->
                 IF x \in DOMAIN g.node THEN g.node[x] ELSE turtle.node[x]]]

\* the parser object after _extract_namespaces, _detect_samm_version and
\* _parse_model have run on its store g
Resolved(p, g, ver) ==
    [graph |-> g,
     model |-> ParseModel(g, ver, ExtractNamespaces(p.model, g.bindings)),
     samm |-> Some(MetaModelNS(ver)), samm_c |-> Some(CharacteristicNS(ver)),
     samm_e |-> Some(EntityNS(ver)), unit |-> Some(UnitNS(ver))]

\* the parser object when _parse_model is ended by RecursionError in the
\* first subject it resolves: nothing was assigned to the registries
Overflowed(p, g, ver) ==
    [graph |-> g,
     model |-> ExtractNamespaces(p.model, g.bindings),
     samm |-> Some(MetaModelNS(ver)), samm_c |-> Some(CharacteristicNS(ver)),
     samm_e |-> Some(EntityNS(ver)), unit |-> Some(UnitNS(ver))]

\* parse_string on the parser object p; it returns p.model
ParseStringOn(p, turtle) ==
    Resolved(p, MergeGraphs(p.graph, turtle),
             DetectSammVersion(MergeGraphs(p.graph, turtle).bindings))

-----------------------------------------------------------------------------
(* JSON values built by the generators                                     *)

JNull == [j |-> "null"]

JVal(v) == [j |-> "val", v |-> v]

JArr(items) == [j |-> "arr", items |-> items]

JObj(d) == [j |-> "obj", d |-> d]

JStr(chunk) == JVal(PyStr(S(chunk)))

JTrue == JVal(PyBool(TRUE))

JFalse == JVal(PyBool(FALSE))

Entry(key, v) == [k |-> S(key), v |-> v]

\* _get_local_name
GetLocalName(urn) ==
    IF Contains(urn, "#") THEN SplitLast(urn, "#")
    ELSE IF Contains(urn, "/") THEN SplitLast(urn, "/")
    ELSE urn

\* the local part of an XSD type: xsd_type.split('#')[-1] or .split(':')[-1]
LocalType(xsd_type) ==
    IF Contains(xsd_type, "#") THEN SplitLast(xsd_type, "#")
    ELSE SplitLast(xsd_type, ":")

\* _is_entity
IsEntity(m, type_uri) == DictHas(m.entities, type_uri)

\* prop.payload_name or self._get_local_name(prop.urn)
PropName(prop) ==
    IF ~IsNone(prop.payload_name) /\ Len(Get(prop.payload_name)) > 0
    THEN Get(prop.payload_name)
    ELSE GetLocalName(prop.urn)

-----------------------------------------------------------------------------
(* json_schema_generator.py: JSONSchemaGenerator                           *)

TypeOnly(ty) == << Entry("type", JStr(ty)) >>

TypeFormat(ty, fmt) == << Entry("type", JStr(ty)), Entry("format", JStr(fmt)) >>

TypeMinimum(ty, min) == << Entry("type", JStr(ty)), Entry("minimum", JVal(PyInt(min))) >>

\* _xsd_to_json_type
XsdToJsonType(xsd_type) ==
    LET local_type == LocalType(xsd_type)
        name == IF Len(local_type) = 1 THEN local_type[1] ELSE ""
    IN  CASE name = "boolean" -> TypeOnly("boolean")
          [] name \in {"string", "curie", "hexBinary", "gYear", "gMonth", "gDay",
                       "gYearMonth", "gMonthDay", "duration", "dayTimeDuration",
                       "yearMonthDuration"} -> TypeOnly("string")
          [] name = "anyURI" -> TypeFormat("string", "uri")
          [] name = "base64Binary" ->
                << Entry("type", JStr("string")), Entry("contentEncoding", JStr("base64")) >>
          [] name \in {"integer", "int", "long", "short", "byte"} -> TypeOnly("integer")
          [] name \in {"nonNegativeInteger", "unsignedLong", "unsignedInt",
                       "unsignedShort", "unsignedByte"} -> TypeMinimum("integer", 0)
          [] name = "positiveInteger" -> TypeMinimum("integer", 1)
          [] name \in {"decimal", "float", "double"} -> TypeOnly("number")
          [] name = "date" -> TypeFormat("string", "date")
          [] name = "time" -> TypeFormat("string", "time")
          [] name \in {"dateTime", "dateTimeStamp"} -> TypeFormat("string", "date-time")
          [] OTHER -> TypeOnly("string")

\* a reference that leaves out the definitions section
RefOutside(name) == << [k |-> S("$ref"), v |-> JVal(PyStr(<< "#/" >> \o name))] >>

Ref(name) == << [k |-> S("$ref"), v |-> JVal(PyStr(<< "#/definitions/" >> \o name))] >>

\* _generate_multilanguage_schema
MultiLanguageSchema ==
    << Entry("type", JStr("object")),
       Entry("patternProperties",
             JObj(<< Entry("^[a-z]{2}(-[A-Z]{2})?$", JObj(TypeOnly("string"))) >>)),
       Entry("additionalProperties", JFalse) >>

\* _generate_scalar_schema
ScalarSchema(char) ==
    IF ~IsNone(char.data_type) /\ Len(Get(char.data_type)) > 0
    THEN XsdToJsonType(Get(char.data_type))
    ELSE << >>

\* _generate_enumeration_schema
EnumerationSchema(char) ==
    LET s0 == IF Len(char.values) > 0
              THEN << Entry("enum", JArr([i \in 1..Len(char.values) |-> JVal(char.values[i])])) >>
              ELSE << >>
        base_type == XsdToJsonType(Get(char.data_type))
    IN  IF ~IsNone(char.data_type) /\ Len(Get(char.data_type)) > 0
           /\ DictHas(base_type, S("type"))
        THEN DictPut(s0, S("type"), Get(DictGet(base_type, S("type"))))
        ELSE s0

CollectionKinds == {"Collection", "List", "Set", "SortedSet", "TimeSeries"}

\* no property is skipped
SkipPropertyNever(prop) == FALSE

\* whether a schema property is skipped, and whether it is required
SkipProperty(prop) == prop.not_in_payload

\* every listed property is required
IsRequiredAlways(prop) == TRUE

IsRequired(prop) == ~prop.optional

RECURSIVE CharacteristicSchema(_, _, _)
RECURSIVE EntityDefinition(_, _, _)
RECURSIVE SchemaProperties(_, _, _, _)

\* the memoised definition of an Entity: self.definitions[name] is written
\* after _generate_entity_definition returns
DefineEntity(m, defs, entity_urn) ==
    LET entity_name == GetLocalName(entity_urn)
        entity == DictGet(m.entities, entity_urn)
        r == EntityDefinition(m, defs, Get(entity))
    IN  IF ~DictHas(defs, entity_name) /\ ~IsNone(entity)
        THEN DictPut(r.d, entity_name, JObj(r.s))
        ELSE defs

\* _generate_collection_schema
CollectionSchema(m, defs, char) ==
    LET unique == IF char.characteristic_type \in {"Set", "SortedSet"}
                  THEN << Entry("uniqueItems", JTrue) >> ELSE << >>
        re == CharacteristicSchema(m, defs, Get(char.element_characteristic))
        dt == Get(char.data_type)
    IN  IF ~IsNone(char.element_characteristic)
        THEN [s |-> TypeOnly("array") \o << Entry("items", JObj(re.s)) >> \o unique,
              d |-> re.d]
        ELSE IF ~IsNone(char.data_type) /\ Len(dt) > 0
        THEN IF IsEntity(m, dt)
             THEN [s |-> TypeOnly("array")
                         \o << Entry("items", JObj(Ref(GetLocalName(dt)))) >> \o unique,
                   d |-> DefineEntity(m, defs, dt)]
             ELSE [s |-> TypeOnly("array")
                         \o << Entry("items", JObj(XsdToJsonType(dt))) >> \o unique,
                   d |-> defs]
        ELSE [s |-> TypeOnly("array") \o unique, d |-> defs]

\* _generate_either_schema
EitherSchema(m, defs, char) ==
    LET rl == IF ~IsNone(char.left)
              THEN CharacteristicSchema(m, defs, Get(char.left))
              ELSE [s |-> << >>, d |-> defs]
        rr == IF ~IsNone(char.right)
              THEN CharacteristicSchema(m, rl.d, Get(char.right))
              ELSE [s |-> << >>, d |-> rl.d]
        props == (IF ~IsNone(char.left) THEN << Entry("left", JObj(rl.s)) >> ELSE << >>)
                 \o (IF ~IsNone(char.right) THEN << Entry("right", JObj(rr.s)) >> ELSE << >>)
        required(key) == JObj(<< Entry("required", JArr(<< JStr(key) >>)) >>)
    IN  [s |-> << Entry("type", JStr("object")),
                  Entry("properties", JObj(props)),
                  Entry("additionalProperties", JFalse),
                  Entry("oneOf", JArr(<< required("left"), required("right") >>)) >>,
         d |-> rr.d]

\* a reference to the definition of whatever the dataType names
EntitySchemaUnchecked(m, defs, char) ==
    IF IsNone(char.data_type) \/ Len(Get(char.data_type)) = 0
    THEN [s |-> TypeOnly("object"), d |-> defs]
    ELSE [s |-> Ref(GetLocalName(Get(char.data_type))), d |-> defs]

\* _generate_entity_schema
EntitySchema(m, defs, char) ==
    IF IsNone(char.data_type) \/ Len(Get(char.data_type)) = 0
       \/ ~IsEntity(m, Get(char.data_type))
    THEN [s |-> TypeOnly("object"), d |-> defs]
    ELSE [s |-> Ref(GetLocalName(Get(char.data_type))),
          d |-> DefineEntity(m, defs, Get(char.data_type))]

\* _generate_characteristic_schema
CharacteristicSchema(m, defs, char) ==
    LET char_type == char.characteristic_type
        hasType == ~IsNone(char.data_type) /\ Len(Get(char.data_type)) > 0
    IN  CASE char_type = "Boolean" -> [s |-> TypeOnly("boolean"), d |-> defs]
          [] char_type \in CollectionKinds -> CollectionSchema(m, defs, char)
          [] char_type = "Either" -> EitherSchema(m, defs, char)
          [] char_type \in {"Enumeration", "State"} ->
                [s |-> EnumerationSchema(char), d |-> defs]
          [] char_type = "SingleEntity" \/ (hasType /\ IsEntity(m, Get(char.data_type))) ->
                EntitySchema(m, defs, char)
          [] char_type = "MultiLanguageText"
             \/ (hasType /\ Get(char.data_type) = << "rdf", ":", "langString" >>) ->
                [s |-> MultiLanguageSchema, d |-> defs]
          [] OTHER -> [s |-> ScalarSchema(char), d |-> defs]

\* _generate_property_schema
PropertySchema(m, defs, prop) ==
    IF ~IsNone(prop.characteristic)
    THEN CharacteristicSchema(m, defs, Get(prop.characteristic))
    ELSE [s |-> << >>, d |-> defs]

\* the property loop shared by generate and _generate_entity_definition:
\* fills `properties` and `required_props`, threading self.definitions
SchemaProperties(m, defs, props, acc) ==
    IF Len(props) = 0 THEN [properties |-> acc.properties, required |-> acc.required, d |-> defs]
    ELSE
    LET prop == props[1]
        prop_name == PropName(prop)
        r == PropertySchema(m, defs, prop)
        acc1 == [properties |-> DictPut(acc.properties, prop_name, JObj(r.s)),
                 required |-> IF IsRequired(prop)
                              THEN Append(acc.required, prop_name) ELSE acc.required]
    IN  IF SkipProperty(prop)
        THEN SchemaProperties(m, defs, Tail(props), acc)
        ELSE SchemaProperties(m, r.d, Tail(props), acc1)

RequiredEntry(required) ==
    IF Len(required) > 0
    THEN << Entry("required", JArr([i \in 1..Len(required) |-> JVal(PyStr(required[i]))])) >>
    ELSE << >>

\* _generate_entity_definition
EntityDefinition(m, defs, entity) ==
    LET parent_entity == IF ~IsNone(entity.extends) /\ Len(Get(entity.extends)) > 0
                         THEN DictGet(m.entities, Get(entity.extends))
                         ELSE None
        inherits == ~IsNone(parent_entity)
        parent_name == GetLocalName(Get(entity.extends))
        d1 == IF inherits THEN DefineEntity(m, defs, Get(entity.extends)) ELSE defs
        r == SchemaProperties(m, d1, entity.properties,
                              [properties |-> << >>, required |-> << >>])
        target == << Entry("type", JStr("object")), Entry("properties", JObj(r.properties)) >>
                  \o RequiredEntry(r.required)
    IN  [s |-> IF inherits
               THEN << Entry("allOf", JArr(<< JObj(Ref(parent_name)), JObj(target) >>)) >>
               ELSE target,
         d |-> r.d]

\* the Entities whose definition (instance) the generation of a
\* characteristic enters; the schema visits both branches of an Either,
\* the instance one
RECURSIVE EntitiesEntered(_, _, _)
EntitiesEntered(m, char, both) ==
    LET referred == IF ~IsNone(char.data_type) /\ IsEntity(m, Get(char.data_type))
                    THEN {Get(char.data_type)} ELSE {}
        left == IF ~IsNone(char.left) THEN EntitiesEntered(m, Get(char.left), both) ELSE {}
        right == IF ~IsNone(char.right) THEN EntitiesEntered(m, Get(char.right), both) ELSE {}
    IN  IF char.characteristic_type = "Boolean" /\ both THEN {}
        ELSE IF char.characteristic_type \in CollectionKinds
        THEN (IF ~IsNone(char.element_characteristic)
              THEN EntitiesEntered(m, Get(char.element_characteristic), both)
              ELSE referred)
        ELSE IF char.characteristic_type = "Either"
        THEN (IF both THEN left \cup right
              ELSE IF ~IsNone(char.right) THEN right ELSE left)
        ELSE IF char.characteristic_type \in {"Enumeration", "State"} THEN {}
        ELSE referred

\* how deep the generation of the definition (instance) of an Entity nests:
\* it enters the parent the Entity extends and the Entities its properties
\* refer to, each before anything is recorded about the Entity itself
RECURSIVE EntityDepth(_, _, _, _)
EntityDepth(m, urn, both, fuel) ==
    IF fuel = 0 \/ ~DictHas(m.entities, urn) THEN 0
    ELSE 1 + MaxOf(
            {IF ~IsNone(Get(DictGet(m.entities, urn)).extends)
                /\ Len(Get(Get(DictGet(m.entities, urn)).extends)) > 0
             THEN EntityDepth(m, Get(Get(DictGet(m.entities, urn)).extends), both, fuel - 1)
             ELSE 0}
            \cup {EntityDepth(m, next, both, fuel - 1) :
                     next \in UNION {EntitiesEntered(m, Get(Get(DictGet(m.entities, urn)).properties[i].characteristic), both) :
                                       i \in {j \in 1..Len(Get(DictGet(m.entities, urn)).properties) :
                                                 /\ ~Get(DictGet(m.entities, urn)).properties[j].not_in_payload
                                                 /\ both \/ IsNone(Get(DictGet(m.entities, urn)).properties[j].example_value)
                                                 /\ ~IsNone(Get(DictGet(m.entities, urn)).properties[j].characteristic)}}})

\* the deepest nesting of generate, over the Aspect's properties
SchemaDepth(m) ==
    IF IsNone(m.aspect) THEN 0
    ELSE MaxOf({EntityDepth(m, urn, TRUE, RecursionLimit + 1) :
                  urn \in UNION {EntitiesEntered(m, Get(Get(m.aspect).properties[i].characteristic), TRUE) :
                                   i \in {j \in 1..Len(Get(m.aspect).properties) :
                                            /\ ~Get(m.aspect).properties[j].not_in_payload
                                            /\ ~IsNone(Get(m.aspect).properties[j].characteristic)}}})

\* generate
GenerateSchema(m) ==
    IF IsNone(m.aspect)
    THEN [status |-> "error", error |-> "No Aspect found in the model", value |-> << >>]
    ELSE
    LET r == SchemaProperties(m, << >>, Get(m.aspect).properties,
                              [properties |-> << >>, required |-> << >>])
    IN  [status |-> "ok", error |-> "",
         value |-> << [k |-> S("$schema"),
                       v |-> JVal(PyStr(<< "http:", "/", "/", "json-schema.org", "/",
                                           "draft-07", "/", "schema", "#" >>))],
                      Entry("type", JStr("object")),
                      Entry("properties", JObj(r.properties)),
                      Entry("definitions", JObj(r.d)) >>
                   \o RequiredEntry(r.required)]

-----------------------------------------------------------------------------
(* json_instance_generator.py: JSONInstanceGenerator                       *)

\* _convert_value on a scalar: Decimal becomes float
ConvertValue(v) == IF v.t = "Decimal" THEN PyFloat(v.n) ELSE v

ExampleCount == 2

\* _generate_default_value_for_type (floats in thousandths)
DefaultValueForType(xsd_type, index) ==
    LET local_type == LocalType(xsd_type)
        name == IF Len(local_type) = 1 THEN local_type[1] ELSE ""
        str(chunk) == PyStr(S(chunk))
    IN  CASE name = "boolean" -> PyBool(TRUE)
          [] name = "string" -> str("example string")
          [] name = "anyURI" -> PyStr(<< "https:", "/", "/", "example.com", "/", "resource" >>)
          [] name = "curie" -> PyStr(<< "ex", ":", "Resource" >>)
          [] name = "hexBinary" -> str("48656C6C6F")
          [] name = "base64Binary" -> str("SGVsbG8gV29ybGQ=")
          [] name \in {"integer", "int"} -> PyInt(42 + index)
          [] name \in {"long", "unsignedLong"} -> PyInt(1000 + index)
          [] name \in {"short", "unsignedShort"} -> PyInt(10 + index)
          [] name \in {"byte", "positiveInteger", "unsignedByte"} -> PyInt(1 + index)
          [] name = "nonNegativeInteger" -> PyInt(0 + index)
          [] name = "unsignedInt" -> PyInt(100 + index)
          [] name = "decimal" -> PyFloat(3140 + 1000 * index)
          [] name = "float" -> PyFloat(1500 + 500 * index)
          [] name = "double" -> PyFloat(2718 + 100 * index)
          [] name = "date" -> str("2024-01-15")
          [] name = "time" -> PyStr(<< "14", ":", "30", ":", "00" >>)
          [] name \in {"dateTime", "dateTimeStamp"} ->
                PyStr(<< "2024-01-15T14", ":", "30", ":", "00Z" >>)
          [] name = "gYear" -> str("2024")
          [] name = "gMonth" -> str("--01")
          [] name = "gDay" -> str("---15")
          [] name = "gYearMonth" -> str("2024-01")
          [] name = "gMonthDay" -> str("--01-15")
          [] name = "duration" -> str("P1Y2M3DT4H5M6S")
          [] name = "dayTimeDuration" -> str("P1DT2H")
          [] name = "yearMonthDuration" -> str("P1Y2M")
          [] OTHER -> str("example_value")

\* _generate_multilanguage_value
MultiLanguageValue ==
    JObj(<< Entry("en", JStr("English text")), Entry("de", JStr("Deutscher Text")) >>)

\* _generate_scalar_value
ScalarValue(char) ==
    IF ~IsNone(char.data_type) /\ Len(Get(char.data_type)) > 0
    THEN JVal(DefaultValueForType(Get(char.data_type), 0))
    ELSE JStr("example_value")

\* _generate_enumeration_value
EnumerationValue(char) ==
    IF ~IsNone(char.default_value) THEN JVal(Get(char.default_value))
    ELSE IF Len(char.values) > 0 THEN JVal(char.values[1])
    ELSE IF ~IsNone(char.data_type) /\ Len(Get(char.data_type)) > 0
         THEN JVal(DefaultValueForType(Get(char.data_type), 0))
    ELSE JStr("ENUM_VALUE")

\* optional properties are left out of the instance
SkipInstanceOptional(prop) == prop.not_in_payload \/ prop.optional

\* whether an instance property is skipped
SkipInstanceProperty(prop) == prop.not_in_payload

RECURSIVE CharacteristicValue(_, _)
RECURSIVE EntityInstance(_, _)
RECURSIVE InstanceProperties(_, _, _)

\* one item of _generate_collection_value, for loop index i
CollectionItem(m, char, i) ==
    IF ~IsNone(char.element_characteristic)
    THEN CharacteristicValue(m, Get(char.element_characteristic))
    ELSE IF ~IsNone(char.data_type) /\ Len(Get(char.data_type)) > 0
    THEN IF IsEntity(m, Get(char.data_type))
         THEN EntityInstance(m, Get(DictGet(m.entities, Get(char.data_type))))
         ELSE JVal(DefaultValueForType(Get(char.data_type), i))
    ELSE JVal(PyStr(<< "item", ToString(i + 1) >>))

\* one item more than the code generates
\* every item generated as the first one
CollectionValueSame(m, char) ==
    JArr([k \in 1..ExampleCount |-> CollectionItem(m, char, 0)])

CollectionValueLonger(m, char) ==
    JArr([k \in 1..(ExampleCount + 1) |-> CollectionItem(m, char, k - 1)])

\* _generate_collection_value
CollectionValue(m, char) ==
    JArr([k \in 1..ExampleCount |-> CollectionItem(m, char, k - 1)])

\* the left branch is preferred
EitherValueLeftFirst(m, char) ==
    IF ~IsNone(char.left)
    THEN JObj(<< Entry("left", CharacteristicValue(m, Get(char.left))) >>)
    ELSE IF ~IsNone(char.right)
    THEN JObj(<< Entry("right", CharacteristicValue(m, Get(char.right))) >>)
    ELSE JObj(<< Entry("right", JStr("value")) >>)

\* _generate_either_value
EitherValue(m, char) ==
    IF ~IsNone(char.right)
    THEN JObj(<< Entry("right", CharacteristicValue(m, Get(char.right))) >>)
    ELSE IF ~IsNone(char.left)
    THEN JObj(<< Entry("left", CharacteristicValue(m, Get(char.left))) >>)
    ELSE JObj(<< Entry("right", JStr("value")) >>)

\* _generate_entity_value
EntityValue(m, char) ==
    IF IsNone(char.data_type) \/ Len(Get(char.data_type)) = 0
       \/ ~IsEntity(m, Get(char.data_type))
    THEN JObj(<< >>)
    ELSE EntityInstance(m, Get(DictGet(m.entities, Get(char.data_type))))

\* _generate_characteristic_value
CharacteristicValue(m, char) ==
    LET char_type == char.characteristic_type
        hasType == ~IsNone(char.data_type) /\ Len(Get(char.data_type)) > 0
    IN  CASE char_type \in CollectionKinds -> CollectionValue(m, char)
          [] char_type = "Either" -> EitherValue(m, char)
          [] char_type \in {"Enumeration", "State"} -> EnumerationValue(char)
          [] char_type = "SingleEntity" \/ (hasType /\ IsEntity(m, Get(char.data_type))) ->
                EntityValue(m, char)
          [] char_type = "MultiLanguageText"
             \/ (hasType /\ Get(char.data_type) = << "rdf", ":", "langString" >>) ->
                MultiLanguageValue
          [] OTHER -> ScalarValue(char)

\* the value generated for one property
PropertyValue(m, prop) ==
    IF ~IsNone(prop.example_value) THEN JVal(ConvertValue(Get(prop.example_value)))
    ELSE IF ~IsNone(prop.characteristic)
    THEN CharacteristicValue(m, Get(prop.characteristic))
    ELSE JNull

\* the property loop shared by generate and _generate_entity_instance
InstanceProperties(m, props, inst) ==
    IF Len(props) = 0 THEN inst
    ELSE IF SkipInstanceProperty(props[1])
         THEN InstanceProperties(m, Tail(props), inst)
         ELSE InstanceProperties(m, Tail(props),
                  DictPut(inst, PropName(props[1]), PropertyValue(m, props[1])))

\* the parent's values overwrite the Entity's own
EntityInstanceParentLast(m, entity) ==
    LET parent_entity == IF ~IsNone(entity.extends) /\ Len(Get(entity.extends)) > 0
                         THEN DictGet(m.entities, Get(entity.extends))
                         ELSE None
        inherited == IF ~IsNone(parent_entity)
                     THEN EntityInstance(m, Get(parent_entity)).d
                     ELSE << >>
    IN  JObj(DictUpdate(InstanceProperties(m, entity.properties, << >>), inherited))

\* _generate_entity_instance
EntityInstance(m, entity) ==
    LET parent_entity == IF ~IsNone(entity.extends) /\ Len(Get(entity.extends)) > 0
                         THEN DictGet(m.entities, Get(entity.extends))
                         ELSE None
        inherited == IF ~IsNone(parent_entity)
                     THEN DictUpdate(<< >>, EntityInstance(m, Get(parent_entity)).d)
                     ELSE << >>
    IN  JObj(InstanceProperties(m, entity.properties, inherited))

\* the deepest nesting of generate, over the Aspect's properties
InstanceDepth(m) ==
    IF IsNone(m.aspect) THEN 0
    ELSE MaxOf({EntityDepth(m, urn, FALSE, RecursionLimit + 1) :
                  urn \in UNION {EntitiesEntered(m, Get(Get(m.aspect).properties[i].characteristic), FALSE) :
                                   i \in {j \in 1..Len(Get(m.aspect).properties) :
                                            /\ ~Get(m.aspect).properties[j].not_in_payload
                                            /\ IsNone(Get(m.aspect).properties[j].example_value)
                                            /\ ~IsNone(Get(m.aspect).properties[j].characteristic)}}})

\* an instance is returned although no Aspect is held
GenerateInstanceUnguarded(m) ==
    [status |-> "ok", error |-> "",
     value |-> IF IsNone(m.aspect) THEN << >>
               ELSE InstanceProperties(m, Get(m.aspect).properties, << >>)]

\* generate
GenerateInstance(m) ==
    IF IsNone(m.aspect)
    THEN [status |-> "error", error |-> "No Aspect found in the model", value |-> << >>]
    ELSE [status |-> "ok", error |-> "",
          value |-> InstanceProperties(m, Get(m.aspect).properties, << >>)]

-----------------------------------------------------------------------------
(* writer.py: SAMMWriter.  Each _write_* method is the sequence of         *)
(* graph.add calls it makes, in the order it makes them; the graph is the  *)
(* store holding those triples.                                            *)

\* _python_to_literal
PythonToLiteral(v) ==
    CASE v.t = "bool" -> LitBool(v.n = 1)
      [] v.t = "int" -> LitInt(v.n)
      [] v.t = "float" -> LitFloat(v.n)
      [] OTHER -> LitStr(StrOf(v))

\* BNode(): the i-th wrapper of the list that owner holds under pred
NewBNode(owner, pred, i) == << "_:", pred, ToString(i) >> \o owner

\* graph.add((s, RDF.type, type)) and graph.add((s, pred, value))
AddType(s, type) == << [s |-> s, p |-> "type", o |-> type] >>

AddTriple(s, pred, value) == << [s |-> s, p |-> pred, o |-> value] >>

\* the elements of seq at the positions in idx, in position order
AtPositions(seq, idx) ==
    [k \in 1..Cardinality(idx) |->
        seq[CHOOSE i \in idx : Cardinality({j \in idx : j < i}) = k - 1]]

\* the store after the given graph.add calls on an empty Graph
GraphOf(bindings, triples) ==
    LET n == Len(triples)
        first == {i \in 1..n : \A j \in 1..(i - 1) : triples[j].s # triples[i].s}
        typesOf(s) ==
            LET idx == {i \in 1..n :
                          /\ triples[i].s = s
                          /\ triples[i].p = "type"
                          /\ \A j \in 1..(i - 1) :
                                ~(triples[j].s = s /\ triples[j].p = "type"
                                  /\ triples[j].o = triples[i].o)}
            IN  [k \in 1..Cardinality(idx) |-> AtPositions(triples, idx)[k].o]
        valueOf(s, pred) ==
            LET idx == {i \in 1..n : triples[i].s = s /\ triples[i].p = pred}
            IN  IF idx = {} THEN None
                ELSE Some(triples[CHOOSE i \in idx : \A j \in idx : j <= i].o)
    IN  [vocab |-> BaselineVersion,
         bindings |-> bindings,
         order |-> [k \in 1..Cardinality(first) |-> AtPositions(triples, first)[k].s],
         node |-> [s \in {triples[i].s : i \in 1..n} |->
                     [f \in DOMAIN EmptyNode |->
                        IF f = "types" THEN typesOf(s) ELSE valueOf(s, f)]]]

\* the RDF class the writer emits for a characteristic_type
CharTypeMap(kind) ==
    IF kind \in KnownKinds THEN Type("samm-c", kind) ELSE Type("samm", "Characteristic")

\* a wrapper for a payloadName only
NeedsWrapperNamed(prop) == ~IsNone(prop.payload_name) /\ Len(Get(prop.payload_name)) > 0

\* whether _create_property_list wraps the Property in a blank node
NeedsWrapper(prop) ==
    \/ (~IsNone(prop.payload_name) /\ Len(Get(prop.payload_name)) > 0)
    \/ prop.optional
    \/ prop.not_in_payload

RECURSIVE WriteCharacteristic(_)
RECURSIVE WriteProperty(_)
RECURSIVE CreatePropertyList(_, _, _)

\* _write_characteristic
WriteCharacteristic(c) ==
    LET u == c.urn
        rl == CreatePropertyList(u, "elements", c.elements)
    IN  AddType(u, CharTypeMap(c.characteristic_type))
        \o (IF ~IsNone(c.data_type) /\ Len(Get(c.data_type)) > 0
            THEN AddTriple(u, "dataType", Get(c.data_type)) ELSE << >>)
        \o (IF ~IsNone(c.unit) /\ Len(Get(c.unit)) > 0
            THEN AddTriple(u, "unit", Get(c.unit)) ELSE << >>)
        \o (IF Len(c.values) > 0
            THEN AddTriple(u, "values",
                           [i \in 1..Len(c.values) |-> PythonToLiteral(c.values[i])])
            ELSE << >>)
        \o (IF ~IsNone(c.default_value)
            THEN AddTriple(u, "defaultValue", PythonToLiteral(Get(c.default_value)))
            ELSE << >>)
        \o (IF ~IsNone(c.element_characteristic)
            THEN WriteCharacteristic(Get(c.element_characteristic))
                 \o AddTriple(u, "elementCharacteristic", Get(c.element_characteristic).urn)
            ELSE << >>)
        \o (IF ~IsNone(c.left)
            THEN WriteCharacteristic(Get(c.left)) \o AddTriple(u, "left", Get(c.left).urn)
            ELSE << >>)
        \o (IF ~IsNone(c.right)
            THEN WriteCharacteristic(Get(c.right)) \o AddTriple(u, "right", Get(c.right).urn)
            ELSE << >>)
        \o (IF ~IsNone(c.deconstruction_rule) /\ Len(Get(c.deconstruction_rule)) > 0
            THEN AddTriple(u, "deconstructionRule", LitStr(Get(c.deconstruction_rule)))
            ELSE << >>)
        \o (IF Len(c.elements) > 0
            THEN rl.triples \o AddTriple(u, "elements", rl.nodes) ELSE << >>)

\* _write_property
WriteProperty(prop) ==
    LET u == prop.urn
    IN  AddType(u, Type("samm", "Property"))
        \o (IF ~IsNone(prop.characteristic)
            THEN WriteCharacteristic(Get(prop.characteristic))
                 \o AddTriple(u, "characteristic", Get(prop.characteristic).urn)
            ELSE << >>)
        \o (IF ~IsNone(prop.example_value)
            THEN AddTriple(u, "exampleValue", PythonToLiteral(Get(prop.example_value)))
            ELSE << >>)

\* the wrapper node of one Property
WriteWrapper(b, prop) ==
    AddTriple(b, "property", prop.urn)
    \o (IF ~IsNone(prop.payload_name) /\ Len(Get(prop.payload_name)) > 0
        THEN AddTriple(b, "payloadName", LitStr(Get(prop.payload_name))) ELSE << >>)
    \o (IF prop.optional THEN AddTriple(b, "optional", LitBool(TRUE)) ELSE << >>)
    \o (IF prop.not_in_payload THEN AddTriple(b, "notInPayload", LitBool(TRUE)) ELSE << >>)

\* _create_property_list; the triples it adds and the nodes of the list
CreatePropertyList(owner, pred, props) ==
    [triples |->
        Concat([i \in 1..Len(props) |->
                  WriteProperty(props[i])
                  \o (IF NeedsWrapper(props[i])
                      THEN WriteWrapper(NewBNode(owner, pred, i), props[i])
                      ELSE << >>)]),
     nodes |->
        [i \in 1..Len(props) |->
            IF NeedsWrapper(props[i]) THEN NewBNode(owner, pred, i) ELSE props[i].urn]]

\* _write_operation
WriteOperation(operation) ==
    LET u == operation.urn
        rl == CreatePropertyList(u, "input", operation.input_properties)
    IN  AddType(u, Type("samm", "Operation"))
        \o (IF Len(operation.input_properties) > 0
            THEN rl.triples \o AddTriple(u, "input", rl.nodes) ELSE << >>)
        \o (IF ~IsNone(operation.output_property)
            THEN WriteProperty(Get(operation.output_property))
                 \o AddTriple(u, "output", Get(operation.output_property).urn)
            ELSE << >>)

\* _write_event
WriteEvent(event) ==
    LET u == event.urn
        rl == CreatePropertyList(u, "parameters", event.parameters)
    IN  AddType(u, Type("samm", "Event"))
        \o (IF Len(event.parameters) > 0
            THEN rl.triples \o AddTriple(u, "parameters", rl.nodes) ELSE << >>)

\* _write_entity
WriteEntity(entity) ==
    LET u == entity.urn
        rl == CreatePropertyList(u, "properties", entity.properties)
    IN  AddType(u, IF entity.is_abstract THEN Type("samm", "AbstractEntity")
                   ELSE Type("samm", "Entity"))
        \o (IF Len(entity.properties) > 0
            THEN rl.triples \o AddTriple(u, "properties", rl.nodes) ELSE << >>)
        \o (IF ~IsNone(entity.extends) /\ Len(Get(entity.extends)) > 0
            THEN AddTriple(u, "extends", Get(entity.extends)) ELSE << >>)

\* for element in elements: Op(element)
WriteEach(Op(_), elements) == Concat([i \in 1..Len(elements) |-> Op(elements[i])])

Urns(elements) == [i \in 1..Len(elements) |-> elements[i].urn]

HasUrn(elements, urn) == \E i \in 1..Len(elements) : elements[i].urn = urn

DictValues(d) == [i \in 1..Len(d) |-> d[i].v]

\* _write_aspect
WriteAspect(aspect) ==
    LET u == aspect.urn
        rl == CreatePropertyList(u, "properties", aspect.properties)
    IN  AddType(u, Type("samm", "Aspect"))
        \o (IF Len(aspect.properties) > 0
            THEN rl.triples \o AddTriple(u, "properties", rl.nodes) ELSE << >>)
        \o (IF Len(aspect.operations) > 0
            THEN AddTriple(u, "operations", Urns(aspect.operations))
                 \o WriteEach(WriteOperation, aspect.operations)
            ELSE << >>)
        \o (IF Len(aspect.events) > 0
            THEN AddTriple(u, "events", Urns(aspect.events))
                 \o WriteEach(WriteEvent, aspect.events)
            ELSE << >>)

\* _is_part_of_aspect_or_entity
IsPartOfAspectOrEntity(m, prop) ==
    \/ (~IsNone(m.aspect) /\ HasUrn(Get(m.aspect).properties, prop.urn))
    \/ \E i \in 1..Len(m.entities) : HasUrn(m.entities[i].v.properties, prop.urn)

\* _is_operation_in_aspect, _is_event_in_aspect
IsOperationInAspect(m, operation) ==
    ~IsNone(m.aspect) /\ HasUrn(Get(m.aspect).operations, operation.urn)

IsEventInAspect(m, event) ==
    ~IsNone(m.aspect) /\ HasUrn(Get(m.aspect).events, event.urn)

\* _bind_namespaces
RECURSIVE BindCustom(_, _)
BindCustom(bindings, prefixes) ==
    IF Len(prefixes) = 0 THEN bindings
    ELSE LET prefix == prefixes[1].k
             standard == {S("samm"), S("samm-c"), S("samm-e"), S("unit"), S("xsd")}
         IN  BindCustom(IF Len(prefix) > 0 /\ prefix \notin standard
                        THEN DictPut(bindings, prefix, prefixes[1].v) ELSE bindings,
                        Tail(prefixes))

BindNamespaces(m) ==
    LET std == << [k |-> S("samm"), v |-> MetaModelNS(BaselineVersion)],
                  [k |-> S("samm-c"), v |-> CharacteristicNS(BaselineVersion)],
                  [k |-> S("samm-e"), v |-> EntityNS(BaselineVersion)],
                  [k |-> S("unit"), v |-> UnitNS(BaselineVersion)],
                  [k |-> S("xsd"), v |-> << "http://www.w3.org/2001/XMLSchema", "#" >>] >>
        custom == BindCustom(std, m.prefixes)
        all == IF Len(m.namespace) > 0 THEN DictPut(custom, << >>, m.namespace) ELSE custom
    IN  [i \in 1..Len(all) |-> [prefix |-> all[i].k, ns |-> all[i].v]]

\* _build_graph on a fresh SAMMWriter; the graph that write_to_string serialises
BuildGraph(m) ==
    GraphOf(BindNamespaces(m),
            (IF ~IsNone(m.aspect) THEN WriteAspect(Get(m.aspect)) ELSE << >>)
            \o WriteEach(WriteEntity, DictValues(m.entities))
            \o WriteEach(WriteCharacteristic, DictValues(m.characteristics))
            \o WriteEach(WriteProperty,
                         SelectSeq(DictValues(m.properties),
                                   LAMBDA p : ~IsPartOfAspectOrEntity(m, p)))
            \o WriteEach(WriteOperation,
                         SelectSeq(DictValues(m.operations),
                                   LAMBDA o : ~IsOperationInAspect(m, o)))
            \o WriteEach(WriteEvent,
                         SelectSeq(DictValues(m.events),
                                   LAMBDA e : ~IsEventInAspect(m, e))))

-----------------------------------------------------------------------------
(* Input graphs                                                            *)

MaxProps == 2

MaxChain == 2

LocalNS == "urn:samm:com.example.test:1.0.0"

U(name) == << LocalNS, "#", name >>

SammC(name) == CharacteristicNS(BaselineVersion) \o << name >>

Subject(s, fields) == [s |-> s, n |-> fields @@ EmptyNode]

Typed(voc, name) == << Type(voc, name) >>

\* the store holding the given subjects, enumerated in the given order
MkGraph(subjects) ==
    [vocab |-> BaselineVersion,
     bindings |-> << [prefix |-> S("samm"), ns |-> MetaModelNS(BaselineVersion)],
                     [prefix |-> S("samm-c"), ns |-> CharacteristicNS(BaselineVersion)],
                     [prefix |-> << >>, ns |-> << LocalNS, "#" >>] >>,
     order |-> [i \in 1..Len(subjects) |-> subjects[i].s],
     node |-> [s \in {subjects[i].s : i \in 1..Len(subjects)} |->
                 subjects[CHOOSE i \in 1..Len(subjects) : subjects[i].s = s].n]]

\* a list element: the Property itself, or a wrapper node with overrides
Direct(p) == [p |-> p, wrap |-> FALSE, pn |-> None, opt |-> None, nip |-> None]

Wrapper(p, pn, opt, nip) == [p |-> p, wrap |-> TRUE, pn |-> pn, opt |-> opt, nip |-> nip]

ItemNode(tag, i, item) ==
    IF item.wrap THEN << "_:", tag, ToString(i) >> ELSE U(item.p)

ItemSubjects(tag, i, item) ==
    IF item.wrap
    THEN << Subject(ItemNode(tag, i, item),
                    [property |-> Some(U(item.p)), payloadName |-> item.pn,
                     optional |-> item.opt, notInPayload |-> item.nip]) >>
    ELSE << >>

ListNodes(tag, items) == [i \in 1..Len(items) |-> ItemNode(tag, i, items[i])]

ListSubjects(tag, items) == Concat([i \in 1..Len(items) |-> ItemSubjects(tag, i, items[i])])

Overrides ==
    { << None, Some(LitBool(TRUE)), None >>,
      << None, None, Some(LitBool(TRUE)) >>,
      << Some(LitStr(S("alias"))), None, None >>,
      << Some(LitStr(S("name"))), None, None >>,
      << None, Some(LitBool(FALSE)), None >>,
      << Some(LitStr(S("alias"))), Some(LitBool(TRUE)), None >>,
      << Some(LitStr(S("name"))), Some(LitBool(TRUE)), None >> }

ItemSpecs ==
    {Direct(p) : p \in {"name", "active"}}
    \cup {Wrapper(p, o[1], o[2], o[3]) : p \in {"name", "active"}, o \in Overrides}

PropertySubject(name, char, example) ==
    Subject(U(name), [types |-> Typed("samm", "Property"),
                      characteristic |-> char, exampleValue |-> example])

\* an Aspect whose property list is `items`, over the Properties `name`
\* (Text) and `active` (Boolean)
PropGraph(items) ==
    MkGraph(<< Subject(U("Movement"), [types |-> Typed("samm", "Aspect"),
                                       properties |-> Some(ListNodes("w", items))]) >>
            \o ListSubjects("w", items)
            \o << PropertySubject("name", Some(SammC("Text")), None),
                  PropertySubject("active", Some(SammC("Boolean")), None) >>)

PropGraphs ==
    {PropGraph(items) : items \in UNION {[1..n -> ItemSpecs] : n \in 0..MaxProps}}

\* no subject typed Aspect
NoAspectGraphs ==
    { MkGraph(<< PropertySubject("name", Some(SammC("Text")), None) >>),
      MkGraph(<< Subject(U("Part"), [types |-> Typed("samm", "Entity"),
                                     properties |-> Some(<< U("name") >>)]),
                 PropertySubject("name", Some(SammC("Text")), Some(LitInt(7))) >>) }

ExampleLits ==
    { LitInt(0), LitInt(7), LitStr(<< >>), LitStr(S("hello")), LitBool(FALSE),
      LitBool(TRUE), LitDecimal(0), LitDecimal(2500), LitFloat(0), LitFloat(1500) }

OptExampleLits == {None} \cup {Some(l) : l \in ExampleLits}

\* Aspect property `name` and Entity property `active`, each with an
\* optional samm:exampleValue
ExampleGraph(ex1, ex2) ==
    MkGraph(<< Subject(U("Movement"), [types |-> Typed("samm", "Aspect"),
                                       properties |-> Some(<< U("name"), U("part") >>)]),
               Subject(U("Part"), [types |-> Typed("samm", "Entity"),
                                   properties |-> Some(<< U("active") >>)]),
               Subject(U("PartChar"), [types |-> Typed("samm-c", "SingleEntity"),
                                       dataType |-> Some(U("Part"))]),
               PropertySubject("name", Some(SammC("Text")), ex1),
               PropertySubject("part", Some(U("PartChar")), None),
               PropertySubject("active", Some(SammC("Boolean")), ex2) >>)

ExampleGraphs == {ExampleGraph(ex1, ex2) : ex1 \in OptExampleLits, ex2 \in OptExampleLits}

\* an Aspect with one Property `value` whose Characteristic C has the given
\* kind and fields; Part is an Entity, Missing is not in the graph
CharGraph(kind, dt, elem, left, right, values, default) ==
    MkGraph(<< Subject(U("Movement"), [types |-> Typed("samm", "Aspect"),
                                       properties |-> Some(<< U("value") >>)]),
               PropertySubject("value", Some(U("C")), None),
               Subject(U("C"), [types |-> Typed("samm-c", kind), dataType |-> dt,
                                elementCharacteristic |-> elem, left |-> left,
                                right |-> right, values |-> values,
                                defaultValue |-> default]),
               Subject(U("InnerList"), [types |-> Typed("samm-c", "List"),
                                        dataType |-> Some(XSD("integer"))]),
               Subject(U("PartChar"), [types |-> Typed("samm-c", "SingleEntity"),
                                       dataType |-> Some(U("Part"))]),
               Subject(U("Part"), [types |-> Typed("samm", "Entity"),
                                   properties |-> Some(<< U("active") >>)]),
               PropertySubject("active", Some(SammC("Boolean")), None) >>)

NestedChars == {None, Some(SammC("Text")), Some(U("InnerList")), Some(U("PartChar"))}

CollectionGraphs ==
    {CharGraph(kind, dt, elem, None, None, None, None) :
        kind \in CollectionKinds,
        dt \in {None, Some(XSD("integer")), Some(XSD("string")), Some(XSD("double")),
                Some(U("Part")), Some(U("Missing"))},
        elem \in NestedChars}

EitherGraphs ==
    {CharGraph("Either", None, None, left, right, None, None) :
        left \in NestedChars, right \in NestedChars}

EnumGraphs ==
    {CharGraph(kind, dt, None, None, None, values, default) :
        kind \in {"Enumeration", "State"},
        dt \in {None, Some(XSD("integer")), Some(XSD("string"))},
        values \in {None, Some(<< LitInt(0), LitInt(1) >>),
                    Some(<< LitStr(S("A")), LitStr(S("B")) >>)},
        default \in {None, Some(LitInt(0)), Some(LitInt(3)), Some(LitStr(<< >>)),
                     Some(LitStr(S("V"))), Some(LitBool(FALSE))}}

\* what Entity number i of a chain lists: its Property q<i> (exampleValue i),
\* directly or under a wrapper, optionally followed by the shared Property r
LevelSpecs ==
    { [q |-> "none", r |-> FALSE], [q |-> "direct", r |-> FALSE],
      [q |-> "id", r |-> FALSE], [q |-> "hidden", r |-> FALSE],
      [q |-> "direct", r |-> TRUE], [q |-> "id", r |-> TRUE],
      [q |-> "optional", r |-> TRUE] }

EntityName(i) == "E" \o ToString(i)

LevelItems(i, spec) ==
    LET q == "q" \o ToString(i)
    IN  (CASE spec.q = "none" -> << >>
           [] spec.q = "direct" -> << Direct(q) >>
           [] spec.q = "id" -> << Wrapper(q, Some(LitStr(S("id"))), None, None) >>
           [] spec.q = "hidden" -> << Wrapper(q, None, None, Some(LitBool(TRUE))) >>
           [] OTHER -> << Wrapper(q, None, Some(LitBool(TRUE)), None) >>)
        \o (IF spec.r THEN << Direct("r") >> ELSE << >>)

\* Entity E<i> extends E<i-1>; E1 extends `root` (absent, or a URN that is
\* not in the graph)
EntitySubjects(i, spec, root, abstract) ==
    LET tag == "e" \o ToString(i)
        items == LevelItems(i, spec)
    IN  << Subject(U(EntityName(i)),
                   [types |-> IF abstract /\ i = 1 THEN Typed("samm", "AbstractEntity")
                              ELSE Typed("samm", "Entity"),
                    properties |-> IF Len(items) = 0 THEN None
                                   ELSE Some(ListNodes(tag, items)),
                    extends |-> IF i = 1 THEN root ELSE Some(U(EntityName(i - 1)))]) >>
        \o ListSubjects(tag, items)
        \o << PropertySubject("q" \o ToString(i), Some(SammC("Text")), Some(LitInt(i))) >>

\* an Aspect with Property `part` of SingleEntity E<n>, the last of a chain
\* of n Entities, and with the shared Property r kept out of the payload
EntityGraph(levels, root, abstract) ==
    LET n == Len(levels)
        listed == << Direct("part"), Wrapper("r", None, None, Some(LitBool(TRUE))) >>
    IN  MkGraph(<< Subject(U("Movement"), [types |-> Typed("samm", "Aspect"),
                                           properties |-> Some(ListNodes("a", listed))]) >>
                \o ListSubjects("a", listed)
                \o << PropertySubject("part", Some(U("PartChar")), None),
                   Subject(U("PartChar"), [types |-> Typed("samm-c", "SingleEntity"),
                                           dataType |-> Some(U(EntityName(n)))]) >>
                \o Concat([i \in 1..n |-> EntitySubjects(n + 1 - i, levels[n + 1 - i],
                                                         root, abstract)])
                \o << PropertySubject("r", Some(SammC("Boolean")), None) >>)

EntityGraphs ==
    {EntityGraph(levels, root, abstract) :
        levels \in UNION {[1..n -> LevelSpecs] : n \in 1..MaxChain},
        root \in {None, Some(U("Missing"))},
        abstract \in BOOLEAN}

SharedOverrides ==
    { << None, Some(LitBool(TRUE)), None >>,
      << None, None, Some(LitBool(TRUE)) >>,
      << Some(LitStr(S("alias"))), None, None >>,
      << Some(LitStr(S("id"))), Some(LitBool(TRUE)), None >> }

SharedWrapper(o) == << Wrapper("name", o[1], o[2], o[3]) >>

\* the Property `name` listed by the Aspect and by the Entities E1 and E2,
\* each time under a wrapper of its own; the store enumerates E1 and E2 in
\* either order
SharedGraph(oa, o1, o2, swap) ==
    LET e1 == << Subject(U("E1"), [types |-> Typed("samm", "Entity"),
                                   properties |-> Some(ListNodes("e1", SharedWrapper(o1)))]) >>
        e2 == << Subject(U("E2"), [types |-> Typed("samm", "Entity"),
                                   properties |-> Some(ListNodes("e2", SharedWrapper(o2)))]) >>
    IN  MkGraph(<< Subject(U("Movement"),
                           [types |-> Typed("samm", "Aspect"),
                            properties |-> Some(ListNodes("a", SharedWrapper(oa)))]) >>
                \o (IF swap THEN e2 \o e1 ELSE e1 \o e2)
                \o ListSubjects("a", SharedWrapper(oa))
                \o ListSubjects("e1", SharedWrapper(o1))
                \o ListSubjects("e2", SharedWrapper(o2))
                \o << PropertySubject("name", Some(SammC("Text")), None) >>)

SharedGraphs ==
    {SharedGraph(oa, o1, o2, swap) :
        oa \in SharedOverrides, o1 \in SharedOverrides, o2 \in SharedOverrides,
        swap \in BOOLEAN}

\* the Property `value` with Characteristic C of the given kind and
\* references; D is a List of C
CycleGraph(kind, elem, left, right, elements) ==
    MkGraph(<< Subject(U("Movement"), [types |-> Typed("samm", "Aspect"),
                                       properties |-> Some(<< U("value") >>)]),
               PropertySubject("value", Some(U("C")), None),
               Subject(U("C"), [types |-> Typed("samm-c", kind),
                                elementCharacteristic |-> elem, left |-> left,
                                right |-> right, elements |-> elements]),
               Subject(U("D"), [types |-> Typed("samm-c", "List"),
                                elementCharacteristic |-> Some(U("C"))]) >>)

\* C refers to itself directly, through a branch of an Either, through D,
\* and through elements -> Property -> characteristic
CycleGraphs ==
    { CycleGraph("List", Some(U("C")), None, None, None),
      CycleGraph("Either", None, Some(SammC("Text")), Some(U("C")), None),
      CycleGraph("Collection", Some(U("D")), None, None, None),
      CycleGraph("StructuredValue", None, None, None, Some(<< U("value") >>)) }

\* chains of Entities whose first Entity extends itself or the last one
LoopGraphs ==
    {EntityGraph(levels, Some(U(EntityName(Len(levels)))), FALSE) :
        levels \in UNION {[1..n -> {[q |-> "direct", r |-> FALSE], [q |-> "id", r |-> TRUE]}] :
                            n \in 1..MaxChain}}

\* references to URNs the graph has no triples for: a SingleEntity without a
\* dataType, with the dataType Missing and with the Entity Part; a Property
\* whose Characteristic Ghost is not in the graph, alone and next to `name`;
\* an Entity that extends Missing next to both
DanglingGraphs ==
    {CharGraph("SingleEntity", dt, None, None, None, None, None) :
        dt \in {None, Some(U("Missing")), Some(U("Part"))}}
    \cup {MkGraph(<< Subject(U("Movement"), [types |-> Typed("samm", "Aspect"),
                                            properties |-> Some(listed)]),
                     PropertySubject("value", Some(U("Ghost")), None),
                     PropertySubject("name", Some(SammC("Text")), None) >>) :
             listed \in {<< U("value") >>, << U("name"), U("value") >>}}
    \cup {MkGraph(<< Subject(U("Movement"),
                            [types |-> Typed("samm", "Aspect"),
                             properties |-> Some(<< U("part"), U("lost"), U("value") >>)]),
                     PropertySubject("part", Some(U("PartChar")), None),
                     PropertySubject("lost", Some(U("LostChar")), None),
                     PropertySubject("value", Some(U("Ghost")), None),
                     Subject(U("PartChar"), [types |-> Typed("samm-c", "SingleEntity"),
                                             dataType |-> Some(U("Part"))]),
                     Subject(U("LostChar"), [types |-> Typed("samm-c", "SingleEntity"),
                                             dataType |-> Some(U("Missing"))]),
                     Subject(U("Part"), [types |-> Typed("samm", "Entity"),
                                         properties |-> Some(<< U("active") >>),
                                         extends |-> Some(U("Missing"))]),
                     PropertySubject("active", Some(SammC("Boolean")), None) >>)}

ListItemSpecs ==
    { Direct("name"),
      Wrapper("name", Some(LitStr(S("alias"))), None, None),
      Wrapper("active", None, Some(LitBool(TRUE)), None),
      Wrapper("active", None, None, Some(LitBool(TRUE))),
      Wrapper("name", Some(LitStr(S("alias"))), Some(LitBool(TRUE)), Some(LitBool(TRUE))) }

\* an Aspect whose Operation `op` has the input list `items`, whose Event
\* `ev` has the parameters list `items`, and whose Property `value` is a
\* StructuredValue with the elements `name` and `element`; the Property
\* `flag` declares optional and payloadName on itself
ListGraph(items, element) ==
    MkGraph(<< Subject(U("Movement"), [types |-> Typed("samm", "Aspect"),
                                       properties |-> Some(<< U("value") >>),
                                       operations |-> Some(<< U("op") >>),
                                       events |-> Some(<< U("ev") >>)]),
               Subject(U("op"), [types |-> Typed("samm", "Operation"),
                                 input |-> Some(ListNodes("i", items))]),
               Subject(U("ev"), [types |-> Typed("samm", "Event"),
                                 parameters |-> Some(ListNodes("p", items))]) >>
            \o ListSubjects("i", items)
            \o ListSubjects("p", items)
            \o << PropertySubject("value", Some(U("C")), None),
                  Subject(U("C"), [types |-> Typed("samm-c", "StructuredValue"),
                                   dataType |-> Some(XSD("string")),
                                   elements |-> Some(<< U("name"), U(element) >>)]),
                  PropertySubject("name", Some(SammC("Text")), None),
                  PropertySubject("active", Some(SammC("Boolean")), None),
                  Subject(U("flag"), [types |-> Typed("samm", "Property"),
                                      characteristic |-> Some(SammC("Boolean")),
                                      optional |-> Some(LitBool(TRUE)),
                                      payloadName |-> Some(LitStr(S("f")))]) >>)

ListGraphs ==
    {ListGraph(items, element) :
        items \in UNION {[1..n -> ListItemSpecs] : n \in 1..2},
        element \in {"active", "flag"}}

AspectSubject(name) ==
    Subject(U(name), [types |-> Typed("samm", "Aspect"),
                      properties |-> Some(CASE name = "Movement" -> << U("name") >>
                                            [] name = "Second" -> << U("active") >>
                                            [] OTHER -> << U("name"), U("active") >>)])

\* several subjects typed Aspect, enumerated by the store in the given order
MultiAspectGraphs ==
    {MkGraph([i \in 1..Len(names) |-> AspectSubject(names[i])]
             \o << PropertySubject("name", Some(SammC("Text")), None),
                   PropertySubject("active", Some(SammC("Boolean")), None) >>) :
        names \in { << "Movement", "Second" >>, << "Second", "Movement" >>,
                    << "Movement", "Second", "Third" >>, << "Third", "Movement", "Second" >>,
                    << "Second", "Third", "Movement" >> }}

\* the Properties `value` and `other` with the same Characteristic C, of
\* which the Aspect lists the given ones
SharedCharGraphs ==
    {MkGraph(<< Subject(U("Movement"), [types |-> Typed("samm", "Aspect"),
                                        properties |-> Some(listed)]),
                PropertySubject("value", Some(U("C")), None),
                PropertySubject("other", Some(U("C")), None),
                Subject(U("C"), [types |-> Typed("samm-c", "Measurement"),
                                 dataType |-> Some(XSD("integer"))]) >>) :
        listed \in {<< U("value") >>, << U("value"), U("other") >>}}

TypeLists ==
    { << Type("samm-c", "Set"), Type("samm-c", "Collection") >>,
      << Type("samm-c", "Collection"), Type("samm-c", "Set") >>,
      << Type("samm", "Characteristic"), Type("samm-c", "List") >>,
      << Type("samm-c", "List"), Type("samm", "Characteristic") >>,
      << Type("samm-c", "Code"), Type("samm-c", "Enumeration") >>,
      << Type("samm-c", "Enumeration"), Type("samm-c", "Code") >>,
      << Type("samm", "Characteristic") >>,
      << Type("samm-c", "Volume") >>,
      << >> }

\* the Characteristic C declares the RDF types `types`, which the store
\* yields in that order
MultiTypeGraphs ==
    {[CharGraph("List", Some(XSD("integer")), None, None, None, None, None)
         EXCEPT !.node[U("C")].types = types] : types \in TypeLists}

UntypedItemSpecs ==
    { Direct("name"), Direct("bare"), Direct("nowhere"),
      Wrapper("bare", None, None, None),
      Wrapper("bare", Some(LitStr(S("alias"))), None, None),
      Wrapper("nowhere", None, Some(LitBool(TRUE)), None) }

\* an Aspect whose list refers to `name`, typed Property, to `bare`, a
\* subject with a characteristic and without RDF type, and to `nowhere`,
\* which is no subject of the graph
UntypedGraph(items) ==
    MkGraph(<< Subject(U("Movement"), [types |-> Typed("samm", "Aspect"),
                                       properties |-> Some(ListNodes("w", items))]) >>
            \o ListSubjects("w", items)
            \o << PropertySubject("name", Some(SammC("Text")), None),
                  Subject(U("bare"), [characteristic |-> Some(SammC("Boolean"))]) >>)

UntypedGraphs ==
    {UntypedGraph(items) : items \in UNION {[1..n -> UntypedItemSpecs] : n \in 1..2}}

\* the Aspect property `node` of Entity Node, whose property `next` has the
\* given Characteristic and exampleValue; Other is an Entity whose property
\* `back` is of Entity Node again, NodeList a List of Node
SelfRefGraph(next, example) ==
    MkGraph(<< Subject(U("Movement"), [types |-> Typed("samm", "Aspect"),
                                       properties |-> Some(<< U("node") >>)]),
               PropertySubject("node", Some(U("NodeChar")), None),
               Subject(U("NodeChar"), [types |-> Typed("samm-c", "SingleEntity"),
                                       dataType |-> Some(U("Node"))]),
               Subject(U("OtherChar"), [types |-> Typed("samm-c", "SingleEntity"),
                                        dataType |-> Some(U("Other"))]),
               Subject(U("NodeList"), [types |-> Typed("samm-c", "List"),
                                       dataType |-> Some(U("Node"))]),
               Subject(U("Node"), [types |-> Typed("samm", "Entity"),
                                   properties |-> Some(<< U("name"), U("next") >>)]),
               Subject(U("Other"), [types |-> Typed("samm", "Entity"),
                                    properties |-> Some(<< U("back") >>)]),
               PropertySubject("name", Some(SammC("Text")), None),
               PropertySubject("next", Some(U(next)), example),
               PropertySubject("back", Some(U("NodeChar")), None) >>)

SelfRefGraphs ==
    {SelfRefGraph(next, example) :
        next \in {"NodeChar", "OtherChar", "NodeList"},
        example \in {None, Some(LitStr(S("end")))}}

\* a URN of another namespace
V(name) == << "urn:samm:com.example.other:2.0.0", "#", name >>

\* two Entities named Part, one per namespace, with the properties `name`
\* and `active`; the Aspect refers to the first by a SingleEntity and to the
\* second by a SingleEntity, by a List, or by an Entity Child that extends
\* it; `first` tells which Property the Aspect lists first
SameNameGraph(kind, first) ==
    MkGraph(<< Subject(U("Movement"),
                       [types |-> Typed("samm", "Aspect"),
                        properties |-> Some(IF first THEN << U("part"), U("other") >>
                                            ELSE << U("other"), U("part") >>)]),
               PropertySubject("part", Some(U("PartChar")), None),
               PropertySubject("other", Some(U("OtherChar")), None),
               Subject(U("PartChar"), [types |-> Typed("samm-c", "SingleEntity"),
                                       dataType |-> Some(U("Part"))]),
               Subject(U("OtherChar"),
                       [types |-> Typed("samm-c", IF kind = "list" THEN "List" ELSE "SingleEntity"),
                        dataType |-> Some(IF kind = "extends" THEN U("Child") ELSE V("Part"))]),
               Subject(U("Part"), [types |-> Typed("samm", "Entity"),
                                   properties |-> Some(<< U("name") >>)]),
               Subject(V("Part"), [types |-> Typed("samm", "Entity"),
                                   properties |-> Some(<< U("active") >>)]),
               Subject(U("Child"), [types |-> Typed("samm", "Entity"),
                                    extends |-> Some(V("Part"))]),
               PropertySubject("name", Some(SammC("Text")), None),
               PropertySubject("active", Some(SammC("Boolean")), None) >>)

SameNameGraphs ==
    {SameNameGraph(kind, first) : kind \in {"single", "list", "extends"}, first \in BOOLEAN}

\* a Characteristic outside the catalog typed samm-c:Boolean, without
\* dataType and with one
BooleanGraphs ==
    {CharGraph("Boolean", dt, None, None, None, None, None) :
        dt \in {None, Some(XSD("boolean")), Some(XSD("string"))}}

Versions == {S("1.0.0"), S("2.2.0")}

Binding(prefix, ns) == [prefix |-> S(prefix), ns |-> ns]

\* prefix declarations: none for SAMM, the meta-model alone, the meta-model
\* and the characteristic namespace (of any version), the characteristic
\* namespace alone, two meta-model namespaces
VersionBindings ==
    {<< >>}
    \cup {<< Binding("samm", MetaModelNS(v)) >> : v \in Versions}
    \cup {<< Binding("samm-c", CharacteristicNS(v)) >> : v \in Versions}
    \cup {<< Binding("samm", MetaModelNS(v)), Binding("samm-c", CharacteristicNS(w)) >> :
             v \in Versions, w \in Versions}
    \cup {<< Binding("samm", MetaModelNS(vw[1])), Binding("old", MetaModelNS(vw[2])) >> :
             vw \in {x \in Versions \X Versions : x[1] # x[2]}}

\* an Aspect with the Text Property `name`, written in the terms of version
\* tv under the given prefix declarations
VersionGraph(tv, bindings) ==
    [MkGraph(<< Subject(U("Movement"), [types |-> Typed("samm", "Aspect"),
                                        properties |-> Some(<< U("name") >>)]),
                PropertySubject("name", Some(CharacteristicNS(tv) \o << "Text" >>), None) >>)
        EXCEPT !.vocab = tv, !.bindings = bindings]

VersionGraphs == {VersionGraph(tv, b) : tv \in Versions, b \in VersionBindings}

\* the texts given to a second parse_string on the same parser: the first
\* text again, another Aspect, an Entity without Aspect
SecondGraphs(g) ==
    { g,
      [MkGraph(<< Subject(U("Second"), [types |-> Typed("samm", "Aspect"),
                                        properties |-> Some(<< U("other") >>)]),
                  PropertySubject("other", Some(CharacteristicNS(g.vocab) \o << "Boolean" >>),
                                  None) >>)
          EXCEPT !.vocab = g.vocab, !.bindings = g.bindings],
      [MkGraph(<< Subject(U("Extra"), [types |-> Typed("samm", "Entity"),
                                       properties |-> Some(<< U("other") >>)]),
                  PropertySubject("other", Some(CharacteristicNS(g.vocab) \o << "Boolean" >>),
                                  None) >>)
          EXCEPT !.vocab = g.vocab, !.bindings = g.bindings] }

\* whether g is one of the input graphs
IsInitGraph(g) ==
    \/ g \in PropGraphs
    \/ g \in NoAspectGraphs
    \/ g \in ExampleGraphs
    \/ g \in CollectionGraphs
    \/ g \in EitherGraphs
    \/ g \in EnumGraphs
    \/ g \in EntityGraphs
    \/ g \in VersionGraphs
    \/ g \in SharedGraphs
    \/ g \in CycleGraphs
    \/ g \in LoopGraphs
    \/ g \in DanglingGraphs
    \/ g \in ListGraphs
    \/ g \in MultiAspectGraphs
    \/ g \in SharedCharGraphs
    \/ g \in MultiTypeGraphs
    \/ g \in UntypedGraphs
    \/ g \in SelfRefGraphs
    \/ g \in SameNameGraphs
    \/ g \in BooleanGraphs

-----------------------------------------------------------------------------
(* The commands: parse, then generate the schema and the instance          *)
(* (cli.generate_all), or write the model and parse what was written       *)

NoResult == [status |-> "none", error |-> "", value |-> << >>]

Ok(v) == [status |-> "ok", error |-> "", value |-> v]

\* the call was ended by the interpreter's RecursionError
RecursionError == [status |-> "error", error |-> "RecursionError", value |-> << >>]

\* the outcome of a call whose call chain reaches the given depth
Within(reached, result) == IF reached > RecursionLimit THEN RecursionError ELSE result

Init ==
    /\ IsInitGraph(graph)
    /\ pc = "start"
    /\ model = EmptyModel
    /\ schema = NoResult
    /\ instance = NoResult
    /\ written = NoResult
    /\ model2 = NoResult
    /\ parser = NewParser
    /\ graph2 = None
    /\ depth = [build |-> 0, schema |-> 0, instance |-> 0]

\* SAMMParser().parse_string(turtle)
Build ==
    /\ pc = "start"
    /\ depth' = [depth EXCEPT !.build = ParseDepth(graph, DetectSammVersion(graph.bindings))]
    /\ IF ParseDepth(graph, DetectSammVersion(graph.bindings)) > RecursionLimit
       THEN /\ parser' = Overflowed(NewParser, graph, DetectSammVersion(graph.bindings))
            /\ pc' = "failed"
            /\ UNCHANGED model
       ELSE /\ model' = ParseString(graph)
            /\ parser' = ParseStringOn(NewParser, graph)
            /\ pc' = "built"
    /\ UNCHANGED <<graph, schema, instance, written, model2, graph2>>

\* JSONSchemaGenerator(model).generate()
Schema ==
    /\ pc = "built"
    /\ schema.status = "none"
    /\ written.status = "none"
    /\ schema' = Within(SchemaDepth(model), GenerateSchema(model))
    /\ depth' = [depth EXCEPT !.schema = SchemaDepth(model)]
    /\ UNCHANGED <<graph, pc, model, instance, written, model2, parser, graph2>>

\* JSONInstanceGenerator(model).generate()
Instance ==
    /\ pc = "built"
    /\ instance.status = "none"
    /\ written.status = "none"
    /\ instance' = Within(InstanceDepth(model), GenerateInstance(model))
    /\ depth' = [depth EXCEPT !.instance = InstanceDepth(model)]
    /\ UNCHANGED <<graph, pc, model, schema, written, model2, parser, graph2>>

\* SAMMWriter(model).write_to_string()
Write ==
    /\ pc = "built"
    /\ schema.status = "none"
    /\ instance.status = "none"
    /\ written.status = "none"
    /\ written' = Ok(BuildGraph(model))
    /\ UNCHANGED <<graph, pc, model, schema, instance, model2, parser, graph2, depth>>

\* SAMMParser().parse_string(<the written Turtle>)
Rebuild ==
    /\ written.status = "ok"
    /\ model2.status = "none"
    /\ model2' = Ok(ParseString(written.value))
    /\ UNCHANGED <<graph, pc, model, schema, instance, written, parser, graph2, depth>>

\* parser.parse_string(<a second text>) on the parser object of Build
BuildAgain ==
    /\ pc = "built"
    /\ schema.status = "none"
    /\ instance.status = "none"
    /\ written.status = "none"
    /\ \E turtle \in SecondGraphs(graph) :
          /\ graph2' = Some(turtle)
          /\ parser' = ParseStringOn(parser, turtle)
    /\ pc' = "again"
    /\ UNCHANGED <<graph, model, schema, instance, written, model2, depth>>

Next == Build \/ Schema \/ Instance \/ Write \/ Rebuild \/ BuildAgain

Spec == Init /\ [][Next]_vars

-----------------------------------------------------------------------------
(* What the specification says of the results, in terms of the Model       *)

\* the local name of a URN: what follows its last separator
LocalName(urn) == << urn[Len(urn)] >>

\* the payload key of a property: its payloadName if set, else its local name
PayloadKey(prop) ==
    IF IsNone(prop.payload_name) THEN LocalName(prop.urn) ELSE Get(prop.payload_name)

\* the properties of a list that are in the payload
InPayload(props) == SelectSeq(props, LAMBDA p : ~p.not_in_payload)

PayloadKeys(props) == {PayloadKey(InPayload(props)[i]) : i \in 1..Len(InPayload(props))}

AspectProperties == IF IsNone(model.aspect) THEN << >> ELSE Get(model.aspect).properties

\* the keys of a JSON object, the member under a key, the strings of its
\* `required` array
Keys(d) == {d[i].k : i \in 1..Len(d)}

Member(d, key) == d[CHOOSE i \in 1..Len(d) : d[i].k = S(key)].v

RequiredKeys(d) ==
    IF S("required") \in Keys(d)
    THEN {Member(d, "required").items[i].v.s : i \in 1..Len(Member(d, "required").items)}
    ELSE {}

EntriesFor(d, key) == Cardinality({i \in 1..Len(d) : d[i].k = key})

\* C1 (as amended): the schema of a Model with an Aspect has exactly one
\* `properties` entry for each payload key of the in-payload Aspect
\* properties and no other entry, and `required` contains a key if and
\* only if some in-payload Aspect property with that key is not optional.
C1_SchemaEntries ==
    schema.status = "ok" =>
        LET props == InPayload(AspectProperties)
            entries == Member(schema.value, "properties").d
        IN  /\ Keys(entries) = PayloadKeys(AspectProperties)
            /\ \A key \in Keys(entries) : EntriesFor(entries, key) = 1
            /\ RequiredKeys(schema.value) =
                  {PayloadKey(props[i]) : i \in {j \in 1..Len(props) : ~props[j].optional}}

\* two in-payload Aspect properties share a payload key, one optional and
\* one not, and the schema has been generated
C1_Witness ==
    /\ schema.status = "ok"
    /\ \E i, j \in 1..Len(AspectProperties) :
          /\ ~AspectProperties[i].not_in_payload
          /\ ~AspectProperties[j].not_in_payload
          /\ PayloadKey(AspectProperties[i]) = PayloadKey(AspectProperties[j])
          /\ AspectProperties[i].optional
          /\ ~AspectProperties[j].optional

\* C1 as stated: for each in-payload Aspect property, exactly one entry
\* under its payload key, which `required` contains iff the property is not
\* optional
C1_AsStated ==
    schema.status = "ok" =>
        \A i \in 1..Len(AspectProperties) :
            ~AspectProperties[i].not_in_payload =>
                /\ EntriesFor(Member(schema.value, "properties").d,
                              PayloadKey(AspectProperties[i])) = 1
                /\ (PayloadKey(AspectProperties[i]) \in RequiredKeys(schema.value))
                      <=> ~AspectProperties[i].optional

\* C2: without an Aspect both generators end in the missing-Aspect error
\* and return nothing; with an Aspect neither ends in that error.
C2_MissingAspect ==
    /\ schema.status # "none" =>
          IF IsNone(model.aspect)
          THEN schema = [status |-> "error", error |-> "No Aspect found in the model",
                         value |-> << >>]
          ELSE schema.error # "No Aspect found in the model"
    /\ instance.status # "none" =>
          IF IsNone(model.aspect)
          THEN instance = [status |-> "error", error |-> "No Aspect found in the model",
                           value |-> << >>]
          ELSE instance.error # "No Aspect found in the model"

\* both generators have run on a Model without an Aspect
C2_Witness ==
    /\ IsNone(model.aspect)
    /\ pc = "built"
    /\ schema.status = "error"
    /\ instance.status = "error"

\* the Characteristic and every Characteristic nested in it
RECURSIVE CharacteristicsIn(_)
CharacteristicsIn(c) ==
    << c >>
    \o (IF IsNone(c.element_characteristic) THEN << >>
        ELSE CharacteristicsIn(Get(c.element_characteristic)))
    \o (IF IsNone(c.left) THEN << >> ELSE CharacteristicsIn(Get(c.left)))
    \o (IF IsNone(c.right) THEN << >> ELSE CharacteristicsIn(Get(c.right)))
    \o Concat([i \in 1..Len(c.elements) |->
                 IF IsNone(c.elements[i].characteristic) THEN << >>
                 ELSE CharacteristicsIn(Get(c.elements[i].characteristic))])

\* every Property the Model holds, and every Characteristic it holds
HeldProperties(m) ==
    DictValues(m.properties)
    \o (IF IsNone(m.aspect) THEN << >> ELSE Get(m.aspect).properties)
    \o Concat([i \in 1..Len(m.entities) |-> m.entities[i].v.properties])

HeldCharacteristics(m) ==
    Concat([i \in 1..Len(m.characteristics) |-> CharacteristicsIn(m.characteristics[i].v)])
    \o Concat([i \in 1..Len(HeldProperties(m)) |->
                 IF IsNone(HeldProperties(m)[i].characteristic) THEN << >>
                 ELSE CharacteristicsIn(Get(HeldProperties(m)[i].characteristic))])

\* no dangling reference: every `extends` and every non-XSD dataType names
\* a registered Entity
NoDangling(m) ==
    /\ \A i \in 1..Len(m.entities) :
          IsNone(m.entities[i].v.extends) \/ DictHas(m.entities, Get(m.entities[i].v.extends))
    /\ \A i \in 1..Len(HeldCharacteristics(m)) :
          LET dt == HeldCharacteristics(m)[i].data_type
          IN  \/ IsNone(dt)
              \/ StartsWith(Get(dt), << "http://www.w3.org/2001/XMLSchema", "#" >>)
              \/ DictHas(m.entities, Get(dt))

\* the Entity reached from urn by n `extends` steps, if there is one
RECURSIVE Ancestor(_, _, _)
Ancestor(m, urn, n) ==
    IF ~DictHas(m.entities, urn) THEN None
    ELSE IF n = 0 THEN Some(urn)
    ELSE IF IsNone(Get(DictGet(m.entities, urn)).extends) THEN None
    ELSE Ancestor(m, Get(Get(DictGet(m.entities, urn)).extends), n - 1)

\* no Entity is its own ancestor
NoCycle(m) ==
    \A i \in 1..Len(m.entities) : \A n \in 1..Len(m.entities) :
        Ancestor(m, m.entities[i].k, n) # Some(m.entities[i].k)

\* the fields of a Property, of a Characteristic and of an ordered list
\* that the round trip is said to keep
PropertyView(p) ==
    [urn |-> p.urn, exampleValue |-> p.example_value, optional |-> p.optional,
     payloadName |-> p.payload_name, notInPayload |-> p.not_in_payload]

CharacteristicView(c) ==
    [urn |-> c.urn, kind |-> c.characteristic_type, dataType |-> c.data_type,
     unit |-> c.unit, values |-> c.values, defaultValue |-> c.default_value]

ListView(props) == [i \in 1..Len(props) |-> PropertyView(props[i])]

EntityView(e) ==
    [urn |-> e.urn, extends |-> e.extends, isAbstract |-> e.is_abstract,
     properties |-> ListView(e.properties)]

AspectView(a) ==
    [urn |-> a.urn, properties |-> ListView(a.properties),
     operations |-> Urns(a.operations), events |-> Urns(a.events)]

\* the same URNs in one registry of two Models, and the same view of each
SameUrns(d1, d2) == Keys(d1) = Keys(d2)

SameViews(d1, d2, View(_)) ==
    \A k \in Keys(d1) \cap Keys(d2) : View(Get(DictGet(d1, k))) = View(Get(DictGet(d2, k)))

\* C3 as stated: for a Model without dangling references and cycles, the
\* Model built from what the writer wrote has the same URNs in every
\* registry, the same kind of every Characteristic and the same field values.
C3_RoundTrip ==
    (model2.status = "ok" /\ NoDangling(model) /\ NoCycle(model)) =>
        LET m2 == model2.value
        IN  /\ SameUrns(model.entities, m2.entities)
            /\ SameUrns(model.characteristics, m2.characteristics)
            /\ SameUrns(model.properties, m2.properties)
            /\ SameUrns(model.operations, m2.operations)
            /\ SameUrns(model.events, m2.events)
            /\ IsNone(model.aspect) = IsNone(m2.aspect)
            /\ ~IsNone(model.aspect) => AspectView(Get(model.aspect)) = AspectView(Get(m2.aspect))
            /\ SameViews(model.entities, m2.entities, EntityView)
            /\ SameViews(model.characteristics, m2.characteristics, CharacteristicView)
            /\ SameViews(model.properties, m2.properties, PropertyView)

\* a Model without dangling references and cycles that holds an Aspect, an
\* Entity and a Property with an exampleValue has been written and rebuilt
C3_Witness ==
    /\ model2.status = "ok"
    /\ NoDangling(model)
    /\ NoCycle(model)
    /\ ~IsNone(model.aspect)
    /\ Len(model.entities) > 0
    /\ \E i \in 1..Len(model.properties) : ~IsNone(model.properties[i].v.example_value)

\* the Entities on the extends chain of urn, most-derived first
RECURSIVE Lineage(_, _, _)
Lineage(m, urn, n) ==
    IF n = 0 \/ ~DictHas(m.entities, urn) THEN << >>
    ELSE << Get(DictGet(m.entities, urn)) >>
         \o (IF IsNone(Get(DictGet(m.entities, urn)).extends) THEN << >>
             ELSE Lineage(m, Get(Get(DictGet(m.entities, urn)).extends), n - 1))

LineageOf(m, urn) == Lineage(m, urn, Len(m.entities))

\* the payload keys of an Entity and of its ancestors
LineageKeys(m, urn) ==
    UNION {PayloadKeys(LineageOf(m, urn)[i].properties) : i \in 1..Len(LineageOf(m, urn))}

\* the object of a definition that holds the Entity's own properties
OwnPart(definition) ==
    IF S("allOf") \in Keys(definition.d)
    THEN Member(definition.d, "allOf").items[2]
    ELSE definition

Definitions == Member(schema.value, "definitions").d

\* the Aspect properties whose value is the instance of a registered Entity
EntityValued(m) ==
    SelectSeq(InPayload(AspectProperties), LAMBDA p :
        /\ IsNone(p.example_value)
        /\ ~IsNone(p.characteristic)
        /\ Get(p.characteristic).characteristic_type = "SingleEntity"
        /\ ~IsNone(Get(p.characteristic).data_type)
        /\ DictHas(m.entities, Get(Get(p.characteristic).data_type)))

EntityOf(p) == Get(Get(p.characteristic).data_type)

\* C4: a property with notInPayload=true adds no key to `properties`, to
\* `required` or to the instance, at the Aspect and inside Entity
\* definitions and Entity instances: every key there is the payload key of
\* an in-payload property (of the Entity the definition was generated from,
\* one of those registered under the definition's name).
C4_NotInPayload ==
    /\ schema.status = "ok" =>
          /\ Keys(Member(schema.value, "properties").d) \subseteq PayloadKeys(AspectProperties)
          /\ RequiredKeys(schema.value) \subseteq PayloadKeys(AspectProperties)
          /\ \A i \in 1..Len(Definitions) : \E j \in 1..Len(model.entities) :
                /\ LocalName(model.entities[j].k) = Definitions[i].k
                /\ Keys(Member(OwnPart(Definitions[i].v).d, "properties").d)
                      \subseteq PayloadKeys(model.entities[j].v.properties)
                /\ RequiredKeys(OwnPart(Definitions[i].v).d)
                      \subseteq PayloadKeys(model.entities[j].v.properties)
    /\ instance.status = "ok" =>
          /\ Keys(instance.value) \subseteq PayloadKeys(AspectProperties)
          /\ \A i \in 1..Len(EntityValued(model)) :
                Keys(Get(DictGet(instance.value, PayloadKey(EntityValued(model)[i]))).d)
                    \subseteq LineageKeys(model, EntityOf(EntityValued(model)[i]))

\* schema and instance have been generated for an Aspect that lists a
\* notInPayload property and an Entity-valued property whose Entity lists one
C4_Witness ==
    /\ schema.status = "ok"
    /\ instance.status = "ok"
    /\ \E i \in 1..Len(AspectProperties) : AspectProperties[i].not_in_payload
    /\ \E i \in 1..Len(EntityValued(model)) :
          LET e == Get(DictGet(model.entities, EntityOf(EntityValued(model)[i])))
          IN  /\ \E j \in 1..Len(e.properties) : e.properties[j].not_in_payload
              /\ LocalName(e.urn) \in Keys(Definitions)

\* the value of a literal, and its JSON rendering (a decimal is a number)
ValueOf(lit) ==
    CASE lit.dt = "boolean" -> PyBool(lit.n = 1)
      [] lit.dt = "integer" -> PyInt(lit.n)
      [] lit.dt = "float" -> PyFloat(lit.n)
      [] lit.dt = "decimal" -> PyDecimal(lit.n)
      [] OTHER -> PyStr(lit.s)

JsonOf(lit) == JVal(IF lit.dt = "decimal" THEN PyFloat(lit.n) ELSE ValueOf(lit))

\* the positions of a list whose property decides the value under its key:
\* in the payload, and not followed by an in-payload property of the same key
Deciding(props) ==
    {i \in 1..Len(props) :
        /\ ~props[i].not_in_payload
        /\ \A j \in (i + 1)..Len(props) :
              props[j].not_in_payload \/ PayloadKey(props[j]) # PayloadKey(props[i])}

\* the exampleValue the source graph declares for a Property, if any
DeclaredExample(urn) == graph.node[urn].exampleValue

\* C5 as stated: the instance value of an in-payload property (of the
\* Aspect, or of the Entity an Aspect property refers to) whose Property
\* declares an exampleValue in the source graph is that exampleValue.
C5_ExampleValue ==
    instance.status = "ok" =>
        /\ \A i \in Deciding(AspectProperties) :
              ~IsNone(DeclaredExample(AspectProperties[i].urn)) =>
                  Get(DictGet(instance.value, PayloadKey(AspectProperties[i])))
                      = JsonOf(Get(DeclaredExample(AspectProperties[i].urn)))
        /\ \A i \in 1..Len(EntityValued(model)) :
              LET own == Get(DictGet(model.entities, EntityOf(EntityValued(model)[i]))).properties
                  object == Get(DictGet(instance.value, PayloadKey(EntityValued(model)[i]))).d
              IN  \A j \in Deciding(own) :
                      ~IsNone(DeclaredExample(own[j].urn)) =>
                          Get(DictGet(object, PayloadKey(own[j])))
                              = JsonOf(Get(DeclaredExample(own[j].urn)))

\* an instance has been generated for an Aspect property and an Entity
\* property that both declare an exampleValue
C5_Witness ==
    /\ instance.status = "ok"
    /\ \E i \in Deciding(AspectProperties) :
          ~IsNone(DeclaredExample(AspectProperties[i].urn))
    /\ \E i \in 1..Len(EntityValued(model)) :
          LET own == Get(DictGet(model.entities, EntityOf(EntityValued(model)[i]))).properties
          IN  \E j \in Deciding(own) : ~IsNone(DeclaredExample(own[j].urn))

CollectionFamily == {"Collection", "List", "Set", "SortedSet", "TimeSeries"}

\* every value generated for a Collection-family characteristic, at the
\* top and nested in collections and Either branches, is an array of two
RECURSIVE ArraysOfTwo(_, _)
ArraysOfTwo(char, json) ==
    IF char.characteristic_type \in CollectionFamily
    THEN /\ json.j = "arr"
         /\ Len(json.items) = 2
         /\ ~IsNone(char.element_characteristic) =>
               \A k \in 1..Len(json.items) :
                   ArraysOfTwo(Get(char.element_characteristic), json.items[k])
    ELSE IF char.characteristic_type = "Either"
    THEN IF ~IsNone(char.right) THEN ArraysOfTwo(Get(char.right), json.d[1].v)
         ELSE IF ~IsNone(char.left) THEN ArraysOfTwo(Get(char.left), json.d[1].v)
         ELSE TRUE
    ELSE TRUE

\* the Aspect properties whose value is generated from their characteristic
Derived(kinds) ==
    {i \in Deciding(AspectProperties) :
        /\ IsNone(AspectProperties[i].example_value)
        /\ ~IsNone(AspectProperties[i].characteristic)
        /\ Get(AspectProperties[i].characteristic).characteristic_type \in kinds}

CharacteristicAt(i) == Get(AspectProperties[i].characteristic)

ValueAt(i) == Get(DictGet(instance.value, PayloadKey(AspectProperties[i])))

\* C6: the value generated for a characteristic of kind Collection, List,
\* Set, SortedSet or TimeSeries is an array of exactly 2 items, whatever
\* its elementCharacteristic and dataType.
C6_CollectionLength ==
    instance.status = "ok" =>
        \A i \in Derived(CollectionFamily \cup {"Either"}) :
            ArraysOfTwo(CharacteristicAt(i), ValueAt(i))

\* an instance has been generated for a collection of collections, and the
\* nested arrays are there
C6_Witness ==
    /\ instance.status = "ok"
    /\ \E i \in Derived(CollectionFamily) :
          /\ ~IsNone(CharacteristicAt(i).element_characteristic)
          /\ Get(CharacteristicAt(i).element_characteristic).characteristic_type = "List"
          /\ ValueAt(i).items[1].j = "arr"

\* C7: the value of an Either characteristic is an object with exactly one
\* key: `right` with the value generated for the right branch if there is
\* one, else `left` with the value generated for the left branch if there
\* is one, else {right: "value"}.
C7_EitherValue ==
    instance.status = "ok" =>
        \A i \in Derived({"Either"}) :
            /\ ValueAt(i).j = "obj"
            /\ Len(ValueAt(i).d) = 1
            /\ ValueAt(i).d[1] =
                  IF ~IsNone(CharacteristicAt(i).right)
                  THEN [k |-> S("right"),
                        v |-> CharacteristicValue(model, Get(CharacteristicAt(i).right))]
                  ELSE IF ~IsNone(CharacteristicAt(i).left)
                  THEN [k |-> S("left"),
                        v |-> CharacteristicValue(model, Get(CharacteristicAt(i).left))]
                  ELSE [k |-> S("right"), v |-> JVal(PyStr(S("value")))]

\* an instance has been generated for an Either with both branches
C7_Witness ==
    /\ instance.status = "ok"
    /\ \E i \in Derived({"Either"}) :
          /\ ~IsNone(CharacteristicAt(i).right)
          /\ ~IsNone(CharacteristicAt(i).left)
          /\ Keys(ValueAt(i).d) = {S("right")}

\* what the source graph declares for the Characteristic of property i
Declared(i, pred) == graph.node[CharacteristicAt(i).urn][pred]

\* C8 as stated: the value of an Enumeration or State characteristic is the
\* declared defaultValue if there is one, unchanged; else the first listed
\* value; else the scalar default of its dataType; else "ENUM_VALUE".
C8_EnumerationValue ==
    instance.status = "ok" =>
        \A i \in Derived({"Enumeration", "State"}) :
            ValueAt(i) =
                IF ~IsNone(Declared(i, "defaultValue"))
                THEN JVal(ValueOf(Get(Declared(i, "defaultValue"))))
                ELSE IF ~IsNone(Declared(i, "values")) /\ Len(Get(Declared(i, "values"))) > 0
                THEN JVal(ValueOf(Get(Declared(i, "values"))[1]))
                ELSE IF ~IsNone(Declared(i, "dataType"))
                THEN JVal(DefaultValueForType(Get(Declared(i, "dataType")), 0))
                ELSE JVal(PyStr(S("ENUM_VALUE")))

\* an instance has been generated for an Enumeration or State that
\* declares a defaultValue and a list of values
C8_Witness ==
    /\ instance.status = "ok"
    /\ \E i \in Derived({"Enumeration", "State"}) :
          /\ ~IsNone(Declared(i, "defaultValue"))
          /\ ~IsNone(Declared(i, "values"))

\* the Entities that extend a registered Entity and have a definition
Children ==
    {i \in 1..Len(model.entities) :
        /\ ~IsNone(model.entities[i].v.extends)
        /\ DictHas(model.entities, Get(model.entities[i].v.extends))
        /\ LocalName(model.entities[i].k) \in Keys(Definitions)}

ChildAt(i) == model.entities[i].v

DefinitionOf(urn) == Get(DictGet(Definitions, LocalName(urn)))

\* the keys of the own in-payload properties that are not optional
OwnRequired(entity) ==
    {PayloadKey(InPayload(entity.properties)[j]) :
        j \in {k \in 1..Len(InPayload(entity.properties)) :
                  ~InPayload(entity.properties)[k].optional}}

\* the definition is an allOf of a reference to the parent and of an object
\* with the Entity's own in-payload properties, and the parent is defined
AllOfShape(i) ==
    LET definition == DefinitionOf(ChildAt(i).urn)
        parts == Member(definition.d, "allOf").items
    IN  /\ Keys(definition.d) = {S("allOf")}
        /\ Len(parts) = 2
        /\ parts[1] = JObj(<< [k |-> S("$ref"),
                               v |-> JVal(PyStr(<< "#/definitions/" >>
                                                \o LocalName(Get(ChildAt(i).extends))))] >>)
        /\ Member(parts[2].d, "type") = JVal(PyStr(S("object")))
        /\ Keys(Member(parts[2].d, "properties").d) = PayloadKeys(ChildAt(i).properties)
        /\ LocalName(Get(ChildAt(i).extends)) \in Keys(Definitions)

\* C9: the definition of an Entity Child that extends a registered Entity
\* Parent is {allOf: [{$ref: "#/definitions/Parent"}, {type: object,
\* properties: Child's own in-payload properties only}]}, where the second
\* element also has `required`, the keys of Child's own non-optional
\* in-payload properties, when there is one; Parent has a definition.
C9_AllOf ==
    schema.status = "ok" =>
        \A i \in Children :
            /\ AllOfShape(i)
            /\ Keys(OwnPart(DefinitionOf(ChildAt(i).urn)).d)
                  = {S("type"), S("properties")}
                    \cup (IF OwnRequired(ChildAt(i)) = {} THEN {} ELSE {S("required")})
            /\ RequiredKeys(OwnPart(DefinitionOf(ChildAt(i).urn)).d) = OwnRequired(ChildAt(i))

\* a schema has been generated with the definition of an Entity that
\* extends a registered Entity and has a non-optional own property
C9_Witness ==
    /\ schema.status = "ok"
    /\ \E i \in Children : OwnRequired(ChildAt(i)) # {}

\* C9 as stated: the second element of allOf has `type` and `properties`
\* and nothing else.
C9_AsStated ==
    schema.status = "ok" =>
        \A i \in Children :
            /\ AllOfShape(i)
            /\ Keys(OwnPart(DefinitionOf(ChildAt(i).urn)).d) = {S("type"), S("properties")}

\* the first Entity of a lineage (most derived first) that has the key
Definer(lineage, key) ==
    lineage[CHOOSE l \in 1..Len(lineage) :
                /\ key \in PayloadKeys(lineage[l].properties)
                /\ \A h \in 1..(l - 1) : key \notin PayloadKeys(lineage[h].properties)]

\* the property of an Entity that decides the value under the key
Decider(entity, key) ==
    entity.properties[CHOOSE j \in Deciding(entity.properties) :
                          PayloadKey(entity.properties[j]) = key]

\* C10: the instance of an Entity over an acyclic extends chain has the
\* payload keys of the Entity and of all its ancestors, and under a key
\* defined at several levels the value of the most derived Entity.
C10_Inherited ==
    instance.status = "ok" =>
        \A i \in 1..Len(EntityValued(model)) :
            LET lineage == LineageOf(model, EntityOf(EntityValued(model)[i]))
                object == Get(DictGet(instance.value, PayloadKey(EntityValued(model)[i]))).d
            IN  /\ Keys(object) = LineageKeys(model, EntityOf(EntityValued(model)[i]))
                /\ \A key \in Keys(object) :
                      Get(DictGet(object, key))
                          = PropertyValue(model, Decider(Definer(lineage, key), key))

\* an instance has been generated for an Entity that defines a key its
\* parent defines too, with another value, next to a key only the parent has
C10_Witness ==
    /\ instance.status = "ok"
    /\ \E i \in 1..Len(EntityValued(model)) :
          LET lineage == LineageOf(model, EntityOf(EntityValued(model)[i]))
          IN  /\ Len(lineage) > 1
              /\ \E key \in PayloadKeys(lineage[1].properties) \cap PayloadKeys(lineage[2].properties) :
                    PropertyValue(model, Decider(lineage[1], key))
                        # PropertyValue(model, Decider(lineage[2], key))
              /\ PayloadKeys(lineage[2].properties) \ PayloadKeys(lineage[1].properties) # {}

\* the Aspect with optional Text `name` and required Boolean `active`
OptionalNameGraph ==
    PropGraph(<< Wrapper("name", None, Some(LitBool(TRUE)), None), Direct("active") >>)

\* C11: the instance has exactly one key for every in-payload Aspect
\* property, optional ones included, and no other key; the key is the
\* payloadName if set, else the URN's local name.  For optional Text `name`
\* and required Boolean `active` it is {name: "example string", active: true}
\* while the schema requires ["active"].
C11_InstanceKeys ==
    /\ instance.status = "ok" =>
          /\ Keys(instance.value) = PayloadKeys(AspectProperties)
          /\ \A key \in Keys(instance.value) : EntriesFor(instance.value, key) = 1
          /\ graph = OptionalNameGraph =>
                instance.value = << Entry("name", JStr("example string")),
                                    Entry("active", JTrue) >>
    /\ (schema.status = "ok" /\ graph = OptionalNameGraph) =>
          Member(schema.value, "required") = JArr(<< JStr("active") >>)

\* schema and instance have been generated for the Aspect with optional
\* `name` and required `active`
C11_Witness ==
    /\ graph = OptionalNameGraph
    /\ instance.status = "ok"
    /\ schema.status = "ok"
    /\ \E i \in 1..Len(AspectProperties) :
          AspectProperties[i].optional /\ PayloadKey(AspectProperties[i]) \in Keys(instance.value)

\* the versions of the meta-model namespaces among the prefix bindings
DeclaredVersions ==
    {v \in Versions : \E i \in 1..Len(graph.bindings) :
                          graph.bindings[i].ns = MetaModelNS(v)}

UsesVersion(v) ==
    /\ parser.samm = Some(MetaModelNS(v))
    /\ parser.samm_c = Some(CharacteristicNS(v))
    /\ parser.samm_e = Some(EntityNS(v))
    /\ parser.unit = Some(UnitNS(v))

\* C12: after build, if a prefix binding is a meta-model namespace of some
\* version, the four resolved namespaces (meta-model, characteristic,
\* entity, unit) all use that version, whatever the other bindings say;
\* if no binding is one, all four use the baseline version 2.2.0.
C12_Vocabulary ==
    pc = "built" =>
        IF DeclaredVersions # {}
        THEN \E v \in DeclaredVersions : UsesVersion(v)
        ELSE UsesVersion(S("2.2.0"))

\* a graph that declares meta-model 1.0.0 next to characteristic 2.2.0 has
\* been built and its Aspect was found
C12_Witness ==
    /\ pc = "built"
    /\ DeclaredVersions = {S("1.0.0")}
    /\ \E i \in 1..Len(graph.bindings) : graph.bindings[i].ns = CharacteristicNS(S("2.2.0"))
    /\ parser.unit = Some(UnitNS(S("1.0.0")))
    /\ ~IsNone(model.aspect)

\* the nodes of the source graph that wrap a Property and carry an override
IsWrapper(x) == x \in DOMAIN graph.node /\ ~IsNone(graph.node[x].property)

Overriding ==
    {x \in DOMAIN graph.node :
        /\ IsWrapper(x)
        /\ \/ ~IsNone(graph.node[x].payloadName)
           \/ ~IsNone(graph.node[x].optional)
           \/ ~IsNone(graph.node[x].notInPayload)}

\* what a node of the source graph declares: a payloadName, a flag
DeclaredName(x) ==
    IF IsNone(graph.node[x].payloadName) THEN None
    ELSE Some(Get(graph.node[x].payloadName).s)

DeclaredFlag(x, pred) == ~IsNone(graph.node[x][pred]) /\ Get(graph.node[x][pred]).n = 1

\* C13 as stated: after build, the registry entry of a Property that a list
\* reaches through a wrapper with overrides has the payloadName, optional
\* and notInPayload declared on the Property itself, not the wrapper's.
C13_Canonical ==
    pc = "built" =>
        \A x \in Overriding :
            LET urn == Get(graph.node[x].property)
                held == Get(DictGet(model.properties, urn))
            IN  /\ held.payload_name = DeclaredName(urn)
                /\ held.optional = DeclaredFlag(urn, "optional")
                /\ held.not_in_payload = DeclaredFlag(urn, "notInPayload")

\* a graph with a wrapper that carries overrides has been built and the
\* wrapped Property is in the registry
C13_Witness ==
    /\ pc = "built"
    /\ \E x \in Overriding : DictHas(model.properties, Get(graph.node[x].property))

\* the Aspect and the Entities of the Model
Holders ==
    (IF IsNone(model.aspect) THEN << >> ELSE << Get(model.aspect) >>)
    \o [i \in 1..Len(model.entities) |-> model.entities[i].v]

Listed(h) == Items(graph.node[h.urn].properties)

\* the elements of h's list the build resolves: wrapper nodes, and subjects
\* typed Property
Kept(h) ==
    SelectSeq(Listed(h), LAMBDA x :
        \/ IsWrapper(x)
        \/ /\ x \in DOMAIN graph.node
           /\ \E i \in 1..Len(graph.node[x].types) :
                 graph.node[x].types[i] = Type("samm", "Property"))

\* the Property held at position i of h's list has the URN and the
\* payloadName, optional and notInPayload of the wrapper at that position
CarriesWrapper(h, i) ==
    /\ h.properties[i].urn = Get(graph.node[Kept(h)[i]].property)
    /\ h.properties[i].payload_name = DeclaredName(Kept(h)[i])
    /\ h.properties[i].optional = DeclaredFlag(Kept(h)[i], "optional")
    /\ h.properties[i].not_in_payload = DeclaredFlag(Kept(h)[i], "notInPayload")

DistinctUrns ==
    DOMAIN graph.node
    \cup UNION {{graph.node[x][pred][i] : i \in 1..Len(graph.node[x][pred])} :
                  x \in DOMAIN graph.node,
                  pred \in {"characteristic", "elementCharacteristic", "left", "right"}}

\* C15 as stated: build ends normally on every graph, and its resolution
\* path is never deeper than the number of distinct URNs, because a URN
\* that is on the path is not entered again.
C15_BuildTerminates ==
    pc \in {"built", "failed"} =>
        /\ pc = "built"
        /\ depth.build <= Cardinality(DistinctUrns)

\* build has run on a graph whose Characteristic C is reachable from itself
C15_Witness ==
    /\ pc \in {"built", "failed"}
    /\ U("C") \in DOMAIN graph.node
    /\ graph.node[U("C")].elementCharacteristic = Some(U("D"))
    /\ graph.node[U("D")].elementCharacteristic = Some(U("C"))

\* C16 as stated: on a Model with a cycle of `extends` both generators end
\* with a result or an explicit error, and the walk along `extends` enters
\* no Entity twice.
C16_GeneratorsTerminate ==
    /\ schema.status # "none" =>
          /\ schema.error # "RecursionError"
          /\ depth.schema <= Len(model.entities)
    /\ instance.status # "none" =>
          /\ instance.error # "RecursionError"
          /\ depth.instance <= Len(model.entities)

\* both generators have run on a Model in which an Entity extends itself
C16_Witness ==
    /\ schema.status # "none"
    /\ instance.status # "none"
    /\ \E i \in 1..Len(model.entities) :
          model.entities[i].v.extends = Some(model.entities[i].k)

\* whether the URN is one the source graph has no triples for, outside the
\* catalog of the resolved version
Absent(urn) ==
    /\ urn \notin DOMAIN graph.node
    /\ ~StartsWith(urn, CharacteristicNS(DetectSammVersion(graph.bindings)))

\* the source graph refers to a URN it has no triples for: by `extends`, by
\* `characteristic`, or by a dataType that is not an XSD type
Dangling ==
    \E x \in DOMAIN graph.node :
        \/ \E pred \in {"extends", "characteristic"} :
              ~IsNone(graph.node[x][pred]) /\ Absent(Get(graph.node[x][pred]))
        \/ /\ ~IsNone(graph.node[x].dataType)
           /\ Absent(Get(graph.node[x].dataType))
           /\ ~StartsWith(Get(graph.node[x].dataType),
                          << "http://www.w3.org/2001/XMLSchema", "#" >>)

\* the Entities with a definition whose `extends` names no registered Entity
Orphans ==
    {i \in 1..Len(model.entities) :
        /\ ~IsNone(model.entities[i].v.extends)
        /\ ~DictHas(model.entities, Get(model.entities[i].v.extends))
        /\ LocalName(model.entities[i].k) \in Keys(Definitions)}

\* the Aspect properties of a SingleEntity whose dataType is no registered
\* Entity, and those whose Characteristic has no triples
Unregistered ==
    {i \in Deciding(AspectProperties) :
        /\ ~IsNone(AspectProperties[i].characteristic)
        /\ CharacteristicAt(i).characteristic_type = "SingleEntity"
        /\ \/ IsNone(CharacteristicAt(i).data_type)
           \/ ~DictHas(model.entities, Get(CharacteristicAt(i).data_type))}

Tripleless ==
    {i \in Deciding(AspectProperties) :
        /\ ~IsNone(AspectProperties[i].characteristic)
        /\ Absent(CharacteristicAt(i).urn)}

SchemaAt(i) ==
    Get(DictGet(Member(schema.value, "properties").d, PayloadKey(AspectProperties[i])))

\* C17: a reference to a URN the graph has no triples for aborts neither
\* build nor a generator.  An Entity whose `extends` names no registered
\* Entity gets a plain object definition without allOf; a SingleEntity whose
\* dataType is no registered Entity gives {type: object} in the schema and
\* {} in the instance; a property whose Characteristic has no triples still
\* has a schema entry and an instance key.
C17_Dangling ==
    /\ Dangling =>
          /\ pc # "failed"
          /\ IsNone(model.aspect) \/ (schema.error = "" /\ instance.error = "")
    /\ schema.status = "ok" =>
          /\ \A i \in Orphans :
                /\ S("allOf") \notin Keys(DefinitionOf(ChildAt(i).urn).d)
                /\ Member(DefinitionOf(ChildAt(i).urn).d, "type") = JStr("object")
                /\ Keys(Member(DefinitionOf(ChildAt(i).urn).d, "properties").d)
                      = PayloadKeys(ChildAt(i).properties)
          /\ \A i \in Unregistered : SchemaAt(i) = JObj(TypeOnly("object"))
          /\ \A i \in Tripleless :
                PayloadKey(AspectProperties[i]) \in Keys(Member(schema.value, "properties").d)
    /\ instance.status = "ok" =>
          /\ \A i \in Unregistered :
                IsNone(AspectProperties[i].example_value) => ValueAt(i) = JObj(<< >>)
          /\ \A i \in Tripleless : PayloadKey(AspectProperties[i]) \in Keys(instance.value)

\* schema and instance have been generated for an Aspect with a property of
\* an Entity that extends an absent Entity, a property of a SingleEntity
\* whose dataType is absent and a property whose Characteristic is absent
C17_Witness ==
    /\ Dangling
    /\ schema.status = "ok"
    /\ instance.status = "ok"
    /\ Orphans # {}
    /\ \E i \in Unregistered :
          /\ CharacteristicAt(i).data_type = Some(U("Missing"))
          /\ ValueAt(i) = JObj(<< >>)
    /\ Tripleless # {}

\* C18 as stated: after a second build through the same parser object the
\* Model for the second graph holds the elements of the second graph only
\* (Aspect, registries, prefixes), and the Model returned for the first
\* graph, which is the parser's one Model object, is as it was returned.
C18_Isolated ==
    pc = "again" =>
        /\ parser.model = ParseString(Get(graph2))
        /\ parser.model = model

\* a graph with an Aspect has been built, and then through the same parser
\* object another graph with another Aspect
C18_Witness ==
    /\ pc = "again"
    /\ Get(graph2) # graph
    /\ ~IsNone(model.aspect)
    /\ ~IsNone(ParseString(Get(graph2)).aspect)
    /\ Get(ParseString(Get(graph2)).aspect).urn # Get(model.aspect).urn

\* the lists of Properties the Model holds: of the Aspect, its Operations
\* and Events, the Entities and the Characteristics
HeldLists ==
    (IF IsNone(model.aspect) THEN {}
     ELSE {[owner |-> Get(model.aspect).urn, pred |-> "properties",
            props |-> Get(model.aspect).properties]}
          \cup {[owner |-> Get(model.aspect).operations[i].urn, pred |-> "input",
                 props |-> Get(model.aspect).operations[i].input_properties] :
                   i \in 1..Len(Get(model.aspect).operations)}
          \cup {[owner |-> Get(model.aspect).events[i].urn, pred |-> "parameters",
                 props |-> Get(model.aspect).events[i].parameters] :
                   i \in 1..Len(Get(model.aspect).events)})
    \cup {[owner |-> model.entities[i].k, pred |-> "properties",
           props |-> model.entities[i].v.properties] : i \in 1..Len(model.entities)}
    \cup {[owner |-> HeldCharacteristics(model)[i].urn, pred |-> "elements",
           props |-> HeldCharacteristics(model)[i].elements] :
             i \in 1..Len(HeldCharacteristics(model))}

\* what the written graph holds at position i of the list
WrittenAt(list, i) == Get(written.value.node[list.owner][list.pred])[i]

Overridden(prop) == ~IsNone(prop.payload_name) \/ prop.optional \/ prop.not_in_payload

\* x is a node that refers to the Property and has its non-default
\* overrides and nothing else
WrapperOf(x, prop) ==
    /\ x # prop.urn
    /\ x \in DOMAIN written.value.node
    /\ written.value.node[x] =
          [property |-> Some(prop.urn),
           payloadName |-> IF IsNone(prop.payload_name) THEN None
                           ELSE Some(LitStr(Get(prop.payload_name))),
           optional |-> IF prop.optional THEN Some(LitBool(TRUE)) ELSE None,
           notInPayload |-> IF prop.not_in_payload THEN Some(LitBool(TRUE)) ELSE None]
          @@ EmptyNode

\* C19: in the graph the writer produces, the element of a properties,
\* input, parameters or elements list is a wrapper node if and only if the
\* held Property has a payloadName, optional = true or notInPayload = true;
\* the wrapper has the reference to the Property and exactly the overrides
\* that are not the default; otherwise the element is the Property's URN.
C19_Wrappers ==
    written.status = "ok" =>
        \A list \in HeldLists :
            Len(list.props) > 0 =>
                /\ Len(Get(written.value.node[list.owner][list.pred])) = Len(list.props)
                /\ \A i \in 1..Len(list.props) :
                      IF Overridden(list.props[i])
                      THEN WrapperOf(WrittenAt(list, i), list.props[i])
                      ELSE WrittenAt(list, i) = list.props[i].urn

\* a graph has been written whose input, parameters and elements lists each
\* hold a Property with overrides next to one without
C19_Witness ==
    /\ written.status = "ok"
    /\ \A pred \in {"input", "parameters", "elements"} :
          \E list \in HeldLists :
              /\ list.pred = pred
              /\ \E i \in 1..Len(list.props) :
                    /\ Overridden(list.props[i])
                    /\ list.props[i].optional
                    /\ IsNone(written.value.node[WrittenAt(list, i)].notInPayload)
              /\ \E i \in 1..Len(list.props) : WrittenAt(list, i) = list.props[i].urn

\* the subjects of the source graph typed Aspect in the meta-model version
\* the build resolved, in the order the store enumerates them
AspectSubjects ==
    SelectSeq(graph.order, LAMBDA s :
        /\ parser.samm = Some(MetaModelNS(graph.vocab))
        /\ \E i \in 1..Len(graph.node[s].types) :
              graph.node[s].types[i] = Type("samm", "Aspect"))

\* C20: after build Model.aspect is absent if the graph has no subject
\* typed Aspect; if it has several, Model.aspect is the one enumerated
\* last, with the properties resolved from that one's list, and the only
\* one held.
C20_LastAspect ==
    pc = "built" =>
        IF Len(AspectSubjects) = 0
        THEN IsNone(model.aspect)
        ELSE /\ Len(model.aspect) = 1
             /\ Get(model.aspect).urn = AspectSubjects[Len(AspectSubjects)]
             /\ Len(Get(model.aspect).properties)
                   = Len(Kept(Get(model.aspect)))

\* a graph with three Aspect subjects, the last of which lists another
\* Property than the first, has been built
C20_Witness ==
    /\ pc = "built"
    /\ Len(AspectSubjects) = 3
    /\ graph.node[AspectSubjects[1]].properties # graph.node[AspectSubjects[3]].properties
    /\ Get(model.aspect).urn = U("Movement")

\* a graph without a subject typed Aspect has been built
C20_WitnessNone ==
    /\ pc = "built"
    /\ Len(AspectSubjects) = 0
    /\ Len(graph.order) > 0

\* every assignment to a registry the build of the source graph made
BuildWrites ==
    ModelWrites(graph, DetectSammVersion(graph.bindings),
                ExtractNamespaces(EmptyModel, graph.bindings))

\* how often the build stored an entry under the URN in the registry
Stored(reg, urn) ==
    Cardinality({i \in 1..Len(BuildWrites) :
                    BuildWrites[i].reg = reg /\ BuildWrites[i].k = urn})

\* the URNs _find_all_characteristics yields: typed with a known kind, or
\* the `characteristic` of a Property
CharacteristicUrns ==
    {FindAllCharacteristics(graph, DetectSammVersion(graph.bindings))[i] :
        i \in 1..Len(FindAllCharacteristics(graph, DetectSammVersion(graph.bindings)))}

\* C21 as stated: during one build every Characteristic URN that is typed
\* with a known kind or is the `characteristic` of a Property is stored
\* exactly once in the characteristics registry, however many Properties
\* refer to it.
C21_StoredOnce ==
    pc = "built" =>
        \A urn \in CharacteristicUrns : Stored("characteristics", urn) = 1

\* a graph in which the Aspect lists two Properties with the same
\* Characteristic C has been built
C21_Witness ==
    /\ pc = "built"
    /\ U("C") \in CharacteristicUrns
    /\ Len(AspectProperties) = 2
    /\ \A i \in 1..2 : ~IsNone(AspectProperties[i].characteristic)
                         /\ CharacteristicAt(i).urn = U("C")
    /\ AspectProperties[1].urn # AspectProperties[2].urn

\* the closed kind list, in the order _parse_characteristic writes it
KindPriority ==
    << "Measurement", "Quantifiable", "Enumeration", "State", "List", "Set",
       "SortedSet", "Collection", "TimeSeries", "Either", "StructuredValue",
       "SingleEntity", "Trait", "Code", "Duration", "Boolean", "Text",
       "MultiLanguageText", "Timestamp", "UnitReference" >>

\* the kinds of the list among the RDF types the source graph declares
DeclaredKinds(urn) ==
    {k \in 1..Len(KindPriority) :
        \E i \in 1..Len(graph.node[urn].types) :
            graph.node[urn].types[i] = Type("samm-c", KindPriority[k])}

\* the first kind of the list that is among the declared types, else the
\* generic kind
KindByPriority(urn) ==
    IF DeclaredKinds(urn) = {} THEN "Characteristic"
    ELSE KindPriority[CHOOSE k \in DeclaredKinds(urn) : \A l \in DeclaredKinds(urn) : k <= l]

\* the registered Characteristics that are subjects of the source graph,
\* read in the meta-model version the graph is written in
Resolvable ==
    {i \in 1..Len(model.characteristics) :
        /\ parser.samm = Some(MetaModelNS(graph.vocab))
        /\ model.characteristics[i].k \in DOMAIN graph.node}

\* C22 as stated: the kind of a Characteristic outside the catalog is the
\* first kind of the fixed list that is among its declared RDF types, in
\* whatever order the graph yields the types, and the generic
\* `Characteristic` if none of its types is in the list.
C22_KindByPriority ==
    pc = "built" =>
        \A i \in Resolvable :
            model.characteristics[i].v.characteristic_type
                = KindByPriority(model.characteristics[i].k)

\* a graph has been built whose Characteristic C declares the types
\* Collection and Set, yielded in that order
C22_Witness ==
    /\ pc = "built"
    /\ U("C") \in DOMAIN graph.node
    /\ graph.node[U("C")].types = << Type("samm-c", "Collection"), Type("samm-c", "Set") >>
    /\ \E i \in Resolvable : model.characteristics[i].k = U("C")

\* the Property a list element refers to: through samm:property if it is
\* a wrapper node, else the element itself
Referent(x) == IF IsWrapper(x) THEN Get(graph.node[x].property) ELSE x

\* C23 as stated: the list resolved for the Aspect and for every Entity
\* has one Property per element of the list in the source graph, in list
\* order, each with the URN the element refers to, directly or through a
\* wrapper node, whether or not that URN is typed Property in the graph.
C23_OnePerElement ==
    pc = "built" =>
        \A n \in 1..Len(Holders) :
            /\ Len(Holders[n].properties) = Len(Listed(Holders[n]))
            /\ \A i \in 1..Len(Holders[n].properties) :
                  i <= Len(Listed(Holders[n])) =>
                      Holders[n].properties[i].urn = Referent(Listed(Holders[n])[i])

\* a graph has been built whose Aspect lists, directly and through a
\* wrapper node, a subject that is not typed Property
C23_Witness ==
    /\ pc = "built"
    /\ ~IsNone(model.aspect)
    /\ Len(Listed(Get(model.aspect))) = 2
    /\ Listed(Get(model.aspect))[1] = U("bare")
    /\ IsWrapper(Listed(Get(model.aspect))[2])
    /\ Referent(Listed(Get(model.aspect))[2]) = U("bare")
    /\ graph.node[U("bare")].types = << >>

\* An object of the build is identified by the position in BuildWrites of
\* the assignment that follows its creation.  _parse_property creates a
\* Characteristic and assigns it to the registry at once; the Property that
\* holds it is assigned by _parse_property_list right after.

\* the assignment that ends the list or element position j belongs to
Owner(writes, j) ==
    writes[CHOOSE l \in (j + 1)..Len(writes) :
              /\ writes[l].reg \in {"aspect", "entities", "operations", "events"}
              /\ \A h \in (j + 1)..(l - 1) :
                    writes[h].reg \notin {"aspect", "entities", "operations", "events"}]

\* the positions of the Properties with a characteristic that are held by
\* the Model's Aspect or by an Entity
HeldPositions(writes) ==
    {j \in 2..Len(HolderWrites(graph, DetectSammVersion(graph.bindings))) :
        /\ writes[j].reg = "properties"
        /\ ~IsNone(writes[j].v.characteristic)
        /\ \/ Owner(writes, j).reg = "entities"
           \/ /\ Owner(writes, j).reg = "aspect"
              /\ Owner(writes, j).k = Get(model.aspect).urn
              /\ \A l \in (j + 1)..Len(writes) :
                    writes[l].reg = "aspect" => writes[l] = Owner(writes, j)}

\* the position of the Characteristic that is the registry's entry
LastStored(writes, urn) ==
    CHOOSE l \in 1..Len(writes) :
        /\ writes[l].reg = "characteristics" /\ writes[l].k = urn
        /\ \A h \in (l + 1)..Len(writes) :
              ~(writes[h].reg = "characteristics" /\ writes[h].k = urn)

\* C24 as stated: after build the registry entry under the URN of the
\* Characteristic of a Property that the Aspect or an Entity holds is the
\* very instance the Property holds, also when several Properties refer to
\* the same Characteristic URN.
C24_SameInstance ==
    pc = "built" =>
        LET writes == BuildWrites
        IN  \A j \in HeldPositions(writes) :
                LastStored(writes, Get(writes[j].v.characteristic).urn) = j - 1

\* a graph has been built in which two Properties held by the Aspect have
\* a Characteristic of the same URN
C24_Witness ==
    /\ pc = "built"
    /\ \E i, j \in HeldPositions(BuildWrites) :
          /\ i < j
          /\ BuildWrites[i].k # BuildWrites[j].k
          /\ Get(BuildWrites[i].v.characteristic).urn = Get(BuildWrites[j].v.characteristic).urn
          /\ Owner(BuildWrites, i).reg = "aspect"
          /\ Owner(BuildWrites, j) = Owner(BuildWrites, i)

\* the Aspect properties of a Collection-family characteristic without
\* elementCharacteristic whose dataType is an XSD type
ScalarCollections ==
    {i \in Derived(CollectionFamily) :
        /\ IsNone(CharacteristicAt(i).element_characteristic)
        /\ ~IsNone(CharacteristicAt(i).data_type)
        /\ StartsWith(Get(CharacteristicAt(i).data_type),
                      << "http://www.w3.org/2001/XMLSchema", "#" >>)}

\* the name of the XSD type of the collection of property i
TypeNameAt(i) == Get(CharacteristicAt(i).data_type)[Len(Get(CharacteristicAt(i).data_type))]

\* the types whose default-table value depends on the index
IndexedTypes ==
    {"integer", "int", "long", "short", "byte", "nonNegativeInteger", "positiveInteger",
     "unsignedLong", "unsignedInt", "unsignedShort", "unsignedByte",
     "decimal", "float", "double"}

\* item k (counted from 1) is the default-table value at index k - 1
ItemsByIndex(i) ==
    /\ ValueAt(i).j = "arr"
    /\ Len(ValueAt(i).items) = 2
    /\ \A k \in 1..2 :
          ValueAt(i).items[k]
              = JVal(DefaultValueForType(Get(CharacteristicAt(i).data_type), k - 1))
    /\ TypeNameAt(i) = "integer" =>
          ValueAt(i).items = << JVal(PyInt(42)), JVal(PyInt(43)) >>
    /\ TypeNameAt(i) = "string" =>
          ValueAt(i).items = << JStr("example string"), JStr("example string") >>

\* C25: for a Collection-family characteristic without elementCharacteristic
\* whose dataType is an XSD type, array element i (i = 0, 1) is the
\* default-table value of the type at index i; the two elements differ
\* exactly when the type is numeric (42, 43 for integer), and are equal for
\* every other type ("example string" twice for string).
C25_ItemsByIndex ==
    instance.status = "ok" =>
        \A i \in ScalarCollections :
            /\ ItemsByIndex(i)
            /\ ValueAt(i).items[1] # ValueAt(i).items[2] <=> TypeNameAt(i) \in IndexedTypes

\* an instance has been generated for a collection of integers and its
\* items are 42 and 43
C25_Witness ==
    /\ instance.status = "ok"
    /\ \E i \in ScalarCollections :
          /\ TypeNameAt(i) = "integer"
          /\ ValueAt(i).items[2] = JVal(PyInt(43))

\* C25 as stated: the two elements are the default-table values at index 0
\* and 1 and differ, for every scalar dataType.
C25_AsStated ==
    instance.status = "ok" =>
        \A i \in ScalarCollections :
            /\ ItemsByIndex(i)
            /\ ValueAt(i).items[1] # ValueAt(i).items[2]

\* the Entities the properties of an Entity refer to
RefersTo(urn) ==
    UNION {EntitiesEntered(model, Get(Get(DictGet(model.entities, urn)).properties[i].characteristic), TRUE) :
             i \in {j \in 1..Len(Get(DictGet(model.entities, urn)).properties) :
                       /\ ~Get(DictGet(model.entities, urn)).properties[j].not_in_payload
                       /\ ~IsNone(Get(DictGet(model.entities, urn)).properties[j].characteristic)}}

\* the Entities reached from the set in at most n steps along properties
RECURSIVE ReachedFrom(_, _)
ReachedFrom(urns, n) ==
    IF n = 0 THEN urns
    ELSE ReachedFrom(urns \cup UNION {RefersTo(u) : u \in urns}, n - 1)

\* the Entities that are reachable from themselves through properties
SelfReaching ==
    {model.entities[i].k : i \in {j \in 1..Len(model.entities) :
        model.entities[j].k \in ReachedFrom(RefersTo(model.entities[j].k), Len(model.entities))}}

\* C26 as stated: on a Model without `extends` cycle in which an Entity is
\* reachable from itself through its properties both generators end
\* without unbounded recursion, and the schema has one definition for that
\* Entity.
C26_SelfReference ==
    (pc = "built" /\ NoCycle(model) /\ SelfReaching # {}) =>
        /\ schema.status # "none" =>
              /\ schema.error # "RecursionError"
              /\ depth.schema <= Len(model.entities)
              /\ schema.status = "ok" =>
                    \A urn \in SelfReaching : EntriesFor(Definitions, LocalName(urn)) = 1
        /\ instance.status # "none" =>
              /\ instance.error # "RecursionError"
              /\ depth.instance <= Len(model.entities)

\* both generators have run on a Model whose Entity Node has a property of
\* Entity Node, without exampleValue
C26_Witness ==
    /\ schema.status # "none"
    /\ instance.status # "none"
    /\ NoCycle(model)
    /\ U("Node") \in SelfReaching
    /\ U("Node") \in RefersTo(U("Node"))
    /\ \A i \in 1..Len(model.properties) : IsNone(model.properties[i].v.example_value)

\* the names that the `$ref`s anywhere in a JSON value refer to
RECURSIVE RefsIn(_)
RefsIn(json) ==
    IF json.j = "obj"
    THEN UNION {IF json.d[i].k = S("$ref")
                THEN {Tail(json.d[i].v.v.s)}
                ELSE RefsIn(json.d[i].v) : i \in 1..Len(json.d)}
    ELSE IF json.j = "arr"
    THEN UNION {RefsIn(json.items[i]) : i \in 1..Len(json.items)}
    ELSE {}

\* the Entities the schema refers to: from the characteristics of the
\* Aspect's in-payload properties, and as parents in `extends`
Referred ==
    UNION {EntitiesEntered(model, Get(InPayload(AspectProperties)[i].characteristic), TRUE) :
             i \in {j \in 1..Len(InPayload(AspectProperties)) :
                       ~IsNone(InPayload(AspectProperties)[j].characteristic)}}
    \cup {Get(ChildAt(i).extends) : i \in Children}

\* the definition under the Entity's local name has the Entity's own
\* in-payload properties
FromEntity(urn) ==
    /\ LocalName(urn) \in Keys(Definitions)
    /\ Keys(Member(OwnPart(DefinitionOf(urn)).d, "properties").d)
          = PayloadKeys(Get(DictGet(model.entities, urn)).properties)

\* C27 as stated: in a generated schema every `$ref` names a key of
\* `definitions`, and the definition under that key was generated from the
\* Entity the reference was made for, also when two registered Entities of
\* different namespaces have the same local name.
C27_RefsResolve ==
    schema.status = "ok" =>
        /\ RefsIn(JObj(schema.value)) \subseteq Keys(Definitions)
        /\ \A urn \in Referred : FromEntity(urn)

\* a schema has been generated for an Aspect that refers to two Entities
\* named Part, of different namespaces and with different properties
C27_Witness ==
    /\ schema.status = "ok"
    /\ {U("Part"), V("Part")} \subseteq Referred
    /\ S("Part") \in RefsIn(JObj(schema.value))
    /\ PayloadKeys(Get(DictGet(model.entities, U("Part"))).properties)
          # PayloadKeys(Get(DictGet(model.entities, V("Part"))).properties)

\* `required` of a schema object lists no key twice, and only keys of the
\* sibling `properties`
RequiredSound(d) ==
    S("required") \in Keys(d) =>
        /\ \A i, j \in 1..Len(Member(d, "required").items) :
              i # j => Member(d, "required").items[i] # Member(d, "required").items[j]
        /\ RequiredKeys(d) \subseteq Keys(Member(d, "properties").d)

\* C28 as stated: in the schema and in every Entity definition `required`
\* has no duplicate key and only keys of the sibling `properties`, also
\* when two listed properties have the same payload key.
C28_RequiredSound ==
    schema.status = "ok" =>
        /\ RequiredSound(schema.value)
        /\ \A i \in 1..Len(Definitions) : RequiredSound(OwnPart(Definitions[i].v).d)

\* a schema has been generated for an Aspect with two in-payload
\* properties of the same payload key, neither of them optional
C28_Witness ==
    /\ schema.status = "ok"
    /\ \E i, j \in 1..Len(AspectProperties) :
          /\ i < j
          /\ ~AspectProperties[i].not_in_payload /\ ~AspectProperties[j].not_in_payload
          /\ ~AspectProperties[i].optional /\ ~AspectProperties[j].optional
          /\ AspectProperties[i].urn # AspectProperties[j].urn
          /\ PayloadKey(AspectProperties[i]) = PayloadKey(AspectProperties[j])

\* the schema of property i says that the items of the array are unique
UniqueItemsAt(i) ==
    /\ S("uniqueItems") \in Keys(SchemaAt(i).d)
    /\ Member(SchemaAt(i).d, "uniqueItems") = JTrue

\* C29 as stated: whenever the schema of a Set or SortedSet characteristic
\* has uniqueItems: true, the two elements of the array generated for the
\* same characteristic are distinct, whatever its elementCharacteristic
\* and dataType.
C29_UniqueItems ==
    (schema.status = "ok" /\ instance.status = "ok") =>
        \A i \in Derived({"Set", "SortedSet"}) :
            UniqueItemsAt(i) => ValueAt(i).items[1] # ValueAt(i).items[2]

\* schema and instance have been generated for a Set of strings: the schema
\* has uniqueItems: true and the instance an array of two items
C29_Witness ==
    /\ schema.status = "ok"
    /\ instance.status = "ok"
    /\ \E i \in Derived({"Set"}) :
          /\ UniqueItemsAt(i)
          /\ CharacteristicAt(i).data_type = Some(XSD("string"))
          /\ IsNone(CharacteristicAt(i).element_characteristic)
          /\ Len(ValueAt(i).items) = 2

\* the JSON type of a value
TypeOfJson(json) ==
    CASE json.j = "obj" -> "object"
      [] json.j = "arr" -> "array"
      [] json.j = "val" /\ json.v.t = "bool" -> "boolean"
      [] json.j = "val" /\ json.v.t = "int" -> "integer"
      [] json.j = "val" /\ json.v.t \in {"float", "Decimal"} -> "number"
      [] json.j = "val" /\ json.v.t = "str" -> "string"
      [] OTHER -> "null"

\* a value is of a JSON Schema type; an integer is a number too
OfType(json, type) ==
    \/ TypeOfJson(json) = type
    \/ type = "number" /\ TypeOfJson(json) = "integer"

\* the Aspect properties whose value comes from their characteristic
Generated ==
    {i \in Deciding(AspectProperties) :
        /\ IsNone(AspectProperties[i].example_value)
        /\ ~IsNone(AspectProperties[i].characteristic)}

\* C30 as stated: for the characteristic of a property without
\* exampleValue, if the schema generated for it has a `type`, the value
\* generated for it is of that JSON type; a characteristic of kind Boolean
\* has the schema {type: boolean} and a boolean value, with or without a
\* dataType.
C30_TypesAgree ==
    (schema.status = "ok" /\ instance.status = "ok") =>
        \A i \in Generated :
            /\ S("type") \in Keys(SchemaAt(i).d) =>
                  OfType(ValueAt(i), Member(SchemaAt(i).d, "type").v.s[1])
            /\ CharacteristicAt(i).characteristic_type = "Boolean" =>
                  /\ SchemaAt(i) = JObj(TypeOnly("boolean"))
                  /\ TypeOfJson(ValueAt(i)) = "boolean"

\* schema and instance have been generated for a Characteristic of kind
\* Boolean that has no dataType
C30_Witness ==
    /\ schema.status = "ok"
    /\ instance.status = "ok"
    /\ \E i \in Generated :
          /\ CharacteristicAt(i).characteristic_type = "Boolean"
          /\ IsNone(CharacteristicAt(i).data_type)
          /\ SchemaAt(i) = JObj(TypeOnly("boolean"))

====
